---- MODULE Spec2Model ----
(***************************************************************************)
(* rua: a lexer, a single-pass compiler and a register VM for a small     *)
(* Lua subset.  Source text is a sequence of one-character strings; the   *)
(* lexer, the compiler and the VM are translated operator by operator.    *)
(***************************************************************************)
EXTENDS Integers, Sequences, FiniteSets, TLC

\* Every record below names its variant in one of these fields, and TLC compares
\* the fields of two records in the order their names first occur in the module:
\* records of different variants differ before their other fields are compared.
VariantFields ==
  [op |-> "", tag |-> "", tok |-> "", res |-> "", st |-> "", e |-> "", some |-> "",
   kind |-> "", ret |-> "", ok |-> "", repr |-> ""]

VARIABLES
  prog,        \* what the source text was written from: statements, or the indexes
               \* of the pieces of a lexer run (never changed)
  srctext,     \* the source text handed to rua / Lexer::new (never changed)
  source,      \* Lexer.source: the input not yet consumed
  tokens,      \* the tokens returned so far by Lexer::next in a lexer run
  constants,   \* ParseProto.constants
  bytecodes,   \* ParseProto.bytecodes
  locals,      \* ParseProto.locals
  emitted,     \* per iteration of the loop of parse: the instructions it pushed
  globals,     \* ExeState.globals
  stack,       \* ExeState.stack
  func_index,  \* ExeState.func_index
  pc,          \* position of execute's for loop in bytecodes (1-based)
  output,      \* the values println! was called with, in order
  phase,       \* "lex" | "parse" | "exec" | "done" | "failed" | "panic"
  result       \* what rua returned

vars == <<prog, srctext, source, tokens, constants, bytecodes, locals, emitted,
          globals, stack, func_index, pc, output, phase, result>>

----------------------------------------------------------------------------
(* Characters *)

\* the characters of bytes 32..126 (byte 96, the backquote, cannot be written in a
\* string here: its place holds a name no input contains)
AsciiPrintable ==
  <<" ", "!", "\"", "#", "$", "%", "&", "'", "(", ")", "*", "+", ",", "-", ".", "/">>
  \o <<"0", "1", "2", "3", "4", "5", "6", "7", "8", "9", ":", ";", "<", "=", ">", "?">>
  \o <<"@", "A", "B", "C", "D", "E", "F", "G", "H", "I", "J", "K", "L", "M", "N", "O">>
  \o <<"P", "Q", "R", "S", "T", "U", "V", "W", "X", "Y", "Z", "[", "\\", "]", "^", "_">>
  \o <<"BACKQUOTE", "a", "b", "c", "d", "e", "f", "g", "h", "i", "j", "k", "l", "m", "n", "o">>
  \o <<"p", "q", "r", "s", "t", "u", "v", "w", "x", "y", "z", "{", "|", "}", "~">>
DigitChars == <<"0", "1", "2", "3", "4", "5", "6", "7", "8", "9">>
DigitSet == {DigitChars[i] : i \in 1..Len(DigitChars)}
HexLetterSet == {"a", "b", "c", "d", "e", "f", "A", "B", "C", "D", "E", "F"}
HexSet == DigitSet \cup HexLetterSet
LetterSet == {AsciiPrintable[i] : i \in 34..59} \cup {AsciiPrintable[i] : i \in 66..91}
\* the predicate of take_while1 in lex_word
WordSet == LetterSet \cup DigitSet \cup {"_"}
\* nom's multispace: space, tab, carriage return, line feed
SpaceSet == {" ", "\t", "\r", "\n"}

\* the byte of an ASCII character (str::as_bytes)
Ord(c) ==
  IF c = "\n" THEN 10
  ELSE IF c = "\t" THEN 9
  ELSE IF c = "\r" THEN 13
  ELSE 31 + (CHOOSE i \in 1..Len(AsciiPrintable) : AsciiPrintable[i] = c)

AsBytes(s) == [i \in 1..Len(s) |-> Ord(s[i])]

DigitVal(c) == (CHOOSE i \in 1..Len(DigitChars) : DigitChars[i] = c) - 1

HexVal(c) ==
  IF c \in DigitSet THEN DigitVal(c)
  ELSE IF c \in {"a", "A"} THEN 10
  ELSE IF c \in {"b", "B"} THEN 11
  ELSE IF c \in {"c", "C"} THEN 12
  ELSE IF c \in {"d", "D"} THEN 13
  ELSE IF c \in {"e", "E"} THEN 14
  ELSE 15

Take(s, n) == SubSeq(s, 1, n)
Drop(s, n) == SubSeq(s, n + 1, Len(s))
StartsWith(s, t) == Len(s) >= Len(t) /\ SubSeq(s, 1, Len(t)) = t

\* the last index of the run of characters of S that starts at index i (i - 1: none)
RECURSIVE SpanFrom(_, _, _)
SpanFrom(s, i, S) ==
  IF i > Len(s) \/ s[i] \notin S THEN i - 1 ELSE SpanFrom(s, i + 1, S)

\* the length of the longest prefix of s made of characters of S
PrefixLen(s, S) == SpanFrom(s, 1, S)

----------------------------------------------------------------------------
(* nom results: Ok((rest, out)), Err(Error) which alt recovers from,       *)
(* Err(Incomplete) (streaming parsers) which alt and fold_many0 pass on.   *)

Ok(rest, out) == [res |-> "Ok", rest |-> rest, out |-> out]
Error == [res |-> "Error", rest |-> <<>>, out |-> <<>>]
Incomplete == [res |-> "Incomplete", rest |-> <<>>, out |-> <<>>]

\* alt((a, b)): b is tried only when a fails with a recoverable Error
Alt(a, b) == IF a.res = "Error" THEN b ELSE a

----------------------------------------------------------------------------
(* Tokens *)

Tok(t) == [tok |-> t, val |-> <<>>]
TokVal(t, v) == [tok |-> t, val |-> v]

UNIT_TOKEN ==
  { <<<<"t", "r", "u", "e">>, "True">>,
    <<<<"f", "a", "l", "s", "e">>, "False">>,
    <<<<"n", "i", "l">>, "Nil">>,
    <<<<"a", "n", "d">>, "And">>,
    <<<<"b", "r", "e", "a", "k">>, "Break">>,
    <<<<"d", "o">>, "Do">>,
    <<<<"e", "l", "s", "e">>, "Else">>,
    <<<<"e", "l", "s", "e", "i", "f">>, "Elseif">>,
    <<<<"e", "n", "d">>, "End">>,
    <<<<"f", "o", "r">>, "For">>,
    <<<<"f", "u", "n", "c", "t", "i", "o", "n">>, "Function">>,
    <<<<"g", "o", "t", "o">>, "Goto">>,
    <<<<"i", "f">>, "If">>,
    <<<<"i", "n">>, "In">>,
    <<<<"l", "o", "c", "a", "l">>, "Local">>,
    <<<<"n", "o", "t">>, "Not">>,
    <<<<"o", "r">>, "Or">>,
    <<<<"r", "e", "t", "u", "r", "n">>, "Return">>,
    <<<<"t", "h", "e", "n">>, "Then">>,
    <<<<"w", "h", "i", "l", "e">>, "While">>,
    <<<<"r", "e", "p", "e", "a", "t">>, "Repeat">>,
    <<<<"u", "n", "t", "i", "l">>, "Until">>,
    <<<<"<", "<">>, "ShiftL">>,
    <<<<">", ">">>, "ShiftR">>,
    <<<<"/", "/">>, "Idiv">>,
    <<<<"=", "=">>, "Equal">>,
    <<<<"~", "=">>, "NotEq">>,
    <<<<"<", "=">>, "LesEq">>,
    <<<<">", "=">>, "GreEq">>,
    <<<<":", ":">>, "DoubColon">>,
    <<<<".", ".">>, "Concat">>,
    <<<<".", ".", ".">>, "Dots">>,
    <<<<"+">>, "Add">>,
    <<<<"-">>, "Sub">>,
    <<<<"*">>, "Mul">>,
    <<<<"/">>, "Div">>,
    <<<<"%">>, "Mod">>,
    <<<<"^">>, "Pow">>,
    <<<<"#">>, "Len">>,
    <<<<"&">>, "BitAnd">>,
    <<<<"~">>, "BitXor">>,
    <<<<"|">>, "BitOr">>,
    <<<<"<">>, "Less">>,
    <<<<">">>, "Greater">>,
    <<<<"=">>, "Assign">>,
    <<<<"(">>, "ParL">>,
    <<<<")">>, "ParR">>,
    <<<<"{">>, "CurlyL">>,
    <<<<"}">>, "CurlyR">>,
    <<<<"[">>, "SqurL">>,
    <<<<"]">>, "SqurR">>,
    <<<<";">>, "SemiColon">>,
    <<<<":">>, "Colon">>,
    <<<<",">>, "Comma">>,
    <<<<".">>, "Dot">> }
UnitTokenHas(text) == \E p \in UNIT_TOKEN : p[1] = text
UnitTokenGet(text) == Tok((CHOOSE p \in UNIT_TOKEN : p[1] = text)[2])

----------------------------------------------------------------------------
(* Numbers.  An i64 is kept as sign and decimal magnitude (most significant *)
(* digit first, no leading zero), so that the 64-bit range is exact.        *)

I64MaxMag == <<9, 2, 2, 3, 3, 7, 2, 0, 3, 6, 8, 5, 4, 7, 7, 5, 8, 0, 7>>
I64MinMag == <<9, 2, 2, 3, 3, 7, 2, 0, 3, 6, 8, 5, 4, 7, 7, 5, 8, 0, 8>>

DigitVals(s) == [i \in 1..Len(s) |-> DigitVal(s[i])]

RECURSIVE StripLeadingZeros(_)
StripLeadingZeros(d) ==
  IF Len(d) > 1 /\ d[1] = 0 THEN StripLeadingZeros(Tail(d)) ELSE d

RECURSIVE DigitsLeqSameLen(_, _)
DigitsLeqSameLen(a, b) ==
  IF a = <<>> THEN TRUE
  ELSE IF a[1] # b[1] THEN a[1] < b[1]
  ELSE DigitsLeqSameLen(Tail(a), Tail(b))

\* a <= b for magnitudes without leading zeros
DigitsLeq(a, b) ==
  Len(a) < Len(b) \/ (Len(a) = Len(b) /\ DigitsLeqSameLen(a, b))

I64(neg, mag) == [neg |-> neg /\ mag # <<0>>, mag |-> mag]

\* <i64 as FromStr>::from_str on [-]digits: Err on overflow
parse_i64(text) ==
  LET neg == text[1] = "-"
      mag == StripLeadingZeros(DigitVals(IF neg THEN Tail(text) ELSE text))
      fits == DigitsLeq(mag, IF neg THEN I64MinMag ELSE I64MaxMag)
  IN [ok |-> fits, v |-> I64(neg, mag)]

RECURSIVE DigitsToNat(_)
DigitsToNat(d) ==
  IF d = <<>> THEN 0 ELSE 10 * DigitsToNat(SubSeq(d, 1, Len(d) - 1)) + d[Len(d)]

RECURSIVE NatToDigits(_)
NatToDigits(n) ==
  IF n < 10 THEN <<n>> ELSE Append(NatToDigits(n \div 10), n % 10)

\* the i64 of a small machine integer (i as i64)
I64Of(i) == IF i < 0 THEN I64(TRUE, NatToDigits(-i)) ELSE I64(FALSE, NatToDigits(i))

I16Max == 32767
I16MinMag == 32768

\* u16::try_from(i) in place of i16::try_from(i)
U16TryFrom(v) ==
  LET fits == ~v.neg /\ DigitsLeq(v.mag, NatToDigits(2 * I16MinMag - 1))
  IN [ok |-> fits, i |-> IF fits THEN DigitsToNat(v.mag) ELSE 0]

\* i16::try_from(i): Some(the integer) when it fits, None otherwise
i16_try_from(v) ==
  LET fits == DigitsLeq(v.mag, NatToDigits(IF v.neg THEN I16MinMag ELSE I16Max))
  IN [ok |-> fits,
      i |-> IF ~fits THEN 0
            ELSE IF v.neg THEN -DigitsToNat(v.mag) ELSE DigitsToNat(v.mag)]

(* Naturals of any size, for reading a decimal as an f64: limbs of four     *)
(* decimal digits, least significant first, no zero limb at the top; <<>>   *)
(* is 0.                                                                    *)
\* one limb and the carry out of it, for a value from -10000 up
CarryLeaf(v) == [s |-> <<(v + 10000) % 10000>>, c |-> ((v + 10000) \div 10000) - 1]

CarryJoin(low, high) == [s |-> low.s \o high.s, c |-> high.c]

\* the limbs x[lo..hi] with the carry c taken in, and the carry out
RECURSIVE BigCarryIn(_, _, _, _)
CarryRest(x, mid, hi, low) == CarryJoin(low, BigCarryIn(x, mid + 1, hi, low.c))
BigCarryIn(x, lo, hi, c) ==
  IF lo > hi THEN [s |-> <<>>, c |-> c]
  ELSE IF lo = hi THEN CarryLeaf(x[lo] + c)
  ELSE CarryRest(x, (lo + hi) \div 2, hi, BigCarryIn(x, lo, (lo + hi) \div 2, c))

CarryTop(r) ==
  r.s \o (IF r.c = 0 THEN <<>>
          ELSE IF r.c < 10000 THEN <<r.c>>
          ELSE <<r.c % 10000, r.c \div 10000>>)

\* the natural with the limb values x, each below 2^31 - 2^17, plus c
BigCarry(x, c) == CarryTop(BigCarryIn(x, 1, Len(x), c))

RECURSIVE BigTrim(_)
BigTrim(x) ==
  IF x # <<>> /\ x[Len(x)] = 0 THEN BigTrim(SubSeq(x, 1, Len(x) - 1)) ELSE x

\* x * k for 0 < k <= 2^17
BigMulSmall(x, k) == BigCarry([i \in 1..Len(x) |-> x[i] * k], 0)

\* 2 * x + b
BigDouble(x, b) == BigCarry([i \in 1..Len(x) |-> 2 * x[i]], b)

\* x \div k for a k that divides 10000
BigDivSmall(x, k) ==
  BigTrim([i \in 1..Len(x) |->
             x[i] \div k + (IF i < Len(x) THEN (x[i + 1] % k) * (10000 \div k) ELSE 0)])

BigHalf(x) == BigDivSmall(x, 2)

RECURSIVE BigLeqFrom(_, _, _)
BigLeqFrom(x, y, i) ==
  IF i = 0 THEN TRUE
  ELSE IF x[i] # y[i] THEN x[i] < y[i]
  ELSE BigLeqFrom(x, y, i - 1)

BigLeq(x, y) == Len(x) < Len(y) \/ (Len(x) = Len(y) /\ BigLeqFrom(x, y, Len(x)))

\* x - y for y <= x
BigSub(x, y) ==
  BigTrim(BigCarryIn([i \in 1..Len(x) |-> x[i] - (IF i <= Len(y) THEN y[i] ELSE 0)],
                     1, Len(x), 0).s)

\* x * 2^k, seventeen bits at a time
RECURSIVE BigShl(_, _)
BigShl(x, k) ==
  IF x = <<>> THEN x
  ELSE IF k <= 17 THEN BigMulSmall(x, 2^k)
  ELSE BigShl(BigShl(x, k \div 2), k - (k \div 2))

\* x * 10^n
BigTimesTen(x, n) ==
  IF x = <<>> THEN x
  ELSE [i \in 1..(n \div 4) |-> 0] \o BigMulSmall(x, <<1, 10, 100, 1000>>[(n % 4) + 1])

DigitOr0(d, i) == IF i >= 1 THEN d[i] ELSE 0

\* the natural written with the decimal digits d, most significant first
BigOfDigits(d) ==
  BigTrim([j \in 1..((Len(d) + 3) \div 4) |->
             DigitOr0(d, Len(d) - 4 * (j - 1))
             + 10 * DigitOr0(d, Len(d) - 4 * (j - 1) - 1)
             + 100 * DigitOr0(d, Len(d) - 4 * (j - 1) - 2)
             + 1000 * DigitOr0(d, Len(d) - 4 * (j - 1) - 3)])

\* the decimal digits of x, most significant first
DigitsOfBig(x) ==
  StripLeadingZeros([i \in 1..(4 * Len(x)) |->
    (x[Len(x) - ((i - 1) \div 4)] \div <<1000, 100, 10, 1>>[((i - 1) % 4) + 1]) % 10])

(* An f64 is kept as mant * 2^exp with mant odd, written in decimal, so that *)
(* two literals are the same f64 exactly when they are read as the same      *)
(* record; 0.0 and inf have their own.  A literal is read as the f64 nearest *)
(* to it, ties to the even one, as <f64 as FromStr> does; lex_float reads no *)
(* sign.                                                                     *)
Zero == [mant |-> <<0>>, exp |-> 0]
Infinity == [mant |-> <<>>, exp |-> 0]

RECURSIVE StripTrailingZeros(_, _)
StripTrailingZeros(d, e) ==
  IF Len(d) > 1 /\ d[Len(d)] = 0
  THEN StripTrailingZeros(SubSeq(d, 1, Len(d) - 1), e + 1)
  ELSE [mant |-> d, exp |-> IF d = <<0>> THEN 0 ELSE e]

\* n / d >= 2^k
AtLeastPow2(n, d, k) ==
  IF k >= 0 THEN BigLeq(BigShl(d, k), n) ELSE BigLeq(d, BigShl(n, -k))

\* the k with 2^k <= n / d < 2^(k + 1), from a k with 2^k <= n / d
RECURSIVE Log2From(_, _, _)
Log2From(n, d, k) == IF AtLeastPow2(n, d, k + 1) THEN Log2From(n, d, k + 1) ELSE k

\* a k with 2^k <= 10^order
Log2Below(order) ==
  IF order >= 0 THEN (order * 3321) \div 1000 ELSE -(((-order) * 3322 + 999) \div 1000)

(* Long division in binary: st.n bits of quotient are still to come, st.t is *)
(* the divisor at the weight of the next bit, st.r what is left of the       *)
(* dividend and st.q the bits found so far.                                  *)
BigDivStep(st) ==
  IF BigLeq(st.t, st.r)
  THEN [q |-> BigDouble(st.q, 1), r |-> BigSub(st.r, st.t), t |-> BigHalf(st.t), n |-> st.n - 1]
  ELSE [q |-> BigDouble(st.q, 0), r |-> st.r, t |-> BigHalf(st.t), n |-> st.n - 1]

RECURSIVE BigDivBits(_)
BigDivBits(st) == IF st.n = 0 THEN st ELSE BigDivBits(BigDivStep(st))

\* the 53-bit quotient q and the remainder r of n by d, where n < d * 2^53
BigDiv53(n, d) == BigDivBits([q |-> <<>>, r |-> n, t |-> BigShl(d, 52), n |-> 53])

\* q * 2^s with the factors 2 of q moved into the exponent
RECURSIVE OddMantissa(_, _)
OddMantissa(q, s) ==
  IF q[1] % 16 = 0 THEN OddMantissa(BigDivSmall(q, 16), s + 4)
  ELSE IF q[1] % 2 = 0 THEN OddMantissa(BigHalf(q), s + 1)
  ELSE [mant |-> DigitsOfBig(q), exp |-> s]

\* q * 2^s as an f64: from 2^1024 on it is inf
Finite(q, s) ==
  IF q = <<>> THEN Zero
  ELSE IF s > 971 \/ (s = 971 /\ q = BigShl(<<1>>, 53)) THEN Infinity
  ELSE OddMantissa(q, s)

\* round half to even: d is the divisor, qr the quotient and the remainder
RoundedUp(d, qr) ==
  IF BigDouble(qr.r, 0) = d THEN qr.q # <<>> /\ qr.q[1] % 2 = 1
  ELSE ~BigLeq(BigDouble(qr.r, 0), d)

Rounded(d, qr, s) == Finite(IF RoundedUp(d, qr) THEN BigCarry(qr.q, 1) ELSE qr.q, s)

\* n / d in units of 2^s, which leaves at most 53 bits
NearestAt(n, d, s) ==
  IF s >= 0 THEN Rounded(BigShl(d, s), BigDiv53(n, BigShl(d, s)), s)
  ELSE Rounded(d, BigDiv53(BigShl(n, -s), d), s)

\* the unit of the f64s around n / d: 2^(k - 52), and 2^-1074 for the subnormal ones
UnitOf(k) == IF k - 52 < -1074 THEN -1074 ELSE k - 52

NearestRatio(n, d, order) == NearestAt(n, d, UnitOf(Log2From(n, d, Log2Below(order))))

\* the f64 nearest to x.mant * 10^x.exp
Nearest(x, order) ==
  IF x.exp >= 0 THEN NearestRatio(BigTimesTen(BigOfDigits(x.mant), x.exp), <<1>>, order)
  ELSE NearestRatio(BigOfDigits(x.mant), BigTimesTen(<<1>>, -x.exp), order)

\* the f64 range: a decimal of order above 309 is inf and one of order below -326 is
\* 0.0 whatever its digits; the others are rounded
InRange(x, order) ==
  IF x.mant = <<0>> THEN Zero
  ELSE IF order < -326 THEN Zero
  ELSE IF order > 309 THEN Infinity
  ELSE Nearest(x, order)

F64Ranged(x) == InRange(x, x.exp + Len(x.mant) - 1)

F64(digits, e) == F64Ranged(StripTrailingZeros(StripLeadingZeros(digits), e))

(* The digits of an exponent as a number, as <f64 as FromStr> reads them: a    *)
(* digit is added, exponent = 10 * exponent + digit, only while the exponent  *)
(* is below 0x10000, and the digits after that are skipped.                   *)
RECURSIVE ExponentFrom(_, _, _)
ExponentFrom(d, i, exponent) ==
  IF i > Len(d) THEN exponent
  ELSE IF exponent < 65536 THEN ExponentFrom(d, i + 1, 10 * exponent + d[i])
  ELSE exponent

ExponentDigits(text) == ExponentFrom(DigitVals(text), 1, 0)

\* the value of the exponent part (e|E)(+|-)?digits, 0 when it is empty
ExponentOf(body) ==
  IF body = <<>> THEN 0
  ELSE IF body[2] = "-" THEN -ExponentDigits(Drop(body, 2))
  ELSE IF body[2] = "+" THEN ExponentDigits(Drop(body, 2))
  ELSE ExponentDigits(Tail(body))

\* the literal cut at ip integer digits, dot point characters, fraction up to index fl
F64At(text, ip, dot, fl) ==
  F64(DigitVals(Take(text, ip) \o SubSeq(text, ip + dot + 1, fl)),
      ExponentOf(Drop(text, fl)) - (fl - (ip + dot)))

F64Dot(text, ip, dot) == F64At(text, ip, dot, SpanFrom(text, ip + dot + 1, DigitSet))

F64Int(text, ip) ==
  F64Dot(text, ip, IF ip < Len(text) /\ text[ip + 1] = "." THEN 1 ELSE 0)

\* <f64 as FromStr>::from_str on the text lex_float recognized
parse_f64(text) == F64Int(text, PrefixLen(text, DigitSet))

----------------------------------------------------------------------------
(* Lexer: src/src/lex/mod.rs and src/src/lex/string.rs *)

\* the last index of the run of characters outside S that starts at index i
RECURSIVE SpanUntil(_, _, _)
SpanUntil(s, i, S) ==
  IF i > Len(s) \/ s[i] \in S THEN i - 1 ELSE SpanUntil(s, i + 1, S)

\* map_res(recognize(...), |s| s.parse().map(Token::Integer))
IntegerAt(input, n, p) ==
  IF p.ok THEN Ok(Drop(input, n), TokVal("Integer", p.v)) ELSE Error

IntegerSigned(input, sign, last) ==
  IF last <= sign THEN Error ELSE IntegerAt(input, last, parse_i64(Take(input, last)))

IntegerFrom(input, sign) == IntegerSigned(input, sign, SpanFrom(input, sign + 1, DigitSet))

lex_integer(input) ==
  IntegerFrom(input, IF input # <<>> /\ input[1] = "-" THEN 1 ELSE 0)

\* the length of (e|E)(+|-)?digit1 at index i of s, 0 when it is not there
ExponentLen(s, i) ==
  IF i <= Len(s) /\ s[i] \in {"e", "E"}
  THEN LET j == IF i + 1 <= Len(s) /\ s[i + 1] \in {"+", "-"} THEN i + 2 ELSE i + 1
           k == SpanFrom(s, j, DigitSet)
       IN IF k >= j THEN k - i + 1 ELSE 0
  ELSE 0

\* Case one: .42, with an optional exponent
FloatCaseOneAt(s, d) == IF d >= 2 THEN d + ExponentLen(s, d + 1) ELSE 0
FloatCaseOne(s) ==
  IF s # <<>> /\ s[1] = "." THEN FloatCaseOneAt(s, SpanFrom(s, 2, DigitSet)) ELSE 0

\* Case two: 42e42 and 42.42e42
FloatCaseTwoExp(f, e) == IF e > 0 THEN f + e ELSE 0
FloatCaseTwoFrac(s, f) == FloatCaseTwoExp(f, ExponentLen(s, f + 1))
FloatCaseTwoAt(s, d, fl) ==
  IF d = 0 THEN 0
  ELSE FloatCaseTwoFrac(s, IF d + 1 <= Len(s) /\ s[d + 1] = "." /\ fl >= d + 2 THEN fl ELSE d)
FloatCaseTwoInt(s, d) == FloatCaseTwoAt(s, d, SpanFrom(s, d + 2, DigitSet))
FloatCaseTwo(s) == FloatCaseTwoInt(s, SpanFrom(s, 1, DigitSet))

\* Case three: 42. and 42.42
FloatCaseThreeAt(s, d) ==
  IF d >= 1 /\ d + 1 <= Len(s) /\ s[d + 1] = "." THEN SpanFrom(s, d + 2, DigitSet) ELSE 0
FloatCaseThree(s) == FloatCaseThreeAt(s, SpanFrom(s, 1, DigitSet))

\* alt: the first case that matches
FirstPositive(a, b, c) == IF a > 0 THEN a ELSE IF b > 0 THEN b ELSE c

FloatAt(input, n) ==
  IF n = 0 THEN Error ELSE Ok(Drop(input, n), TokVal("Float", parse_f64(Take(input, n))))

lex_float(input) ==
  FloatAt(input, FirstPositive(FloatCaseOne(input), FloatCaseTwo(input), FloatCaseThree(input)))

WordToken(word) == IF UnitTokenHas(word) THEN UnitTokenGet(word) ELSE TokVal("Name", word)
WordAt(input, n) == IF n = 0 THEN Error ELSE Ok(Drop(input, n), WordToken(Take(input, n)))

lex_word(input) == WordAt(input, PrefixLen(input, WordSet))

\* the tags of lex_chars, in the order alt tries them
LexCharsTags ==
  << <<"<", "<">>, <<">", ">">>, <<"/", "/">>, <<"=", "=">>, <<"~", "=">>,
     <<"<", "=">>, <<">", "=">>, <<":", ":">>, <<".", ".">>, <<".", ".", ".">> >>

\* the characters of one_of in lex_chars
OneOfChars ==
  {"+", "-", "*", "/", "%", "^", "#", "&", "~", "|",
   "<", ">", "=", "(", ")", "{", "}", "[", "]", ";", ":", ",", "."}
\* the tags that start the input
TagHits(input) == {i \in 1..Len(LexCharsTags) : StartsWith(input, LexCharsTags[i])}
First(hits) == CHOOSE i \in hits : \A j \in hits : i <= j
TagAt(input, tag) == Ok(Drop(input, Len(tag)), UnitTokenGet(tag))

CharsAt(input, hits) ==
  IF hits # {} THEN TagAt(input, LexCharsTags[First(hits)])
  ELSE IF input # <<>> /\ input[1] \in OneOfChars THEN TagAt(input, <<input[1]>>)
  ELSE Error

lex_chars(input) == CharsAt(input, TagHits(input))

\* delimited(tag("--"), is_not("\n"), char('\n'))
CommentAt(input, last) ==
  IF StartsWith(input, <<"-", "-">>) /\ last >= 3
     /\ last + 1 <= Len(input) /\ input[last + 1] = "\n"
  THEN Ok(Drop(input, last + 1), Tok("Comment"))
  ELSE Error

lex_comment(input) == CommentAt(input, SpanUntil(input, 3, {"\n"}))

\* a non-empty run of characters that are neither \ nor "
LiteralAt(input, n) == IF n = 0 THEN Error ELSE Ok(Drop(input, n), Take(input, n))
literal(input) == LiteralAt(input, SpanUntil(input, 1, {"\"", "\\"}))

\* streaming take_while_m_n(1, 3, is_ascii_digit), then u8's from_str
DecByteOf(input, n, v) == IF v > 255 THEN Error ELSE Ok(Drop(input, n), v)
DecByteTake(input, n) == DecByteOf(input, n, DigitsToNat(DigitVals(Take(input, n))))
DecByteAt(input, idx) ==
  IF idx = Len(input) /\ idx < 3 THEN Incomplete
  ELSE IF idx = 0 THEN Error
  ELSE DecByteTake(input, IF idx > 3 THEN 3 ELSE idx)
dec_byte(input) == DecByteAt(input, PrefixLen(input, DigitSet))

\* char('x'), then take(2) and, over those two characters only, take_while(hex)
HexByteOf(input, two, h) ==
  IF h = 0 THEN Error
  ELSE Ok(Drop(input, 3),
          IF h = 2 THEN 16 * HexVal(two[1]) + HexVal(two[2]) ELSE HexVal(two[1]))
HexByteTwo(input, two) == HexByteOf(input, two, PrefixLen(two, HexSet))
hex_byte(input) ==
  IF input = <<>> \/ input[1] # "x" THEN Error
  ELSE IF Len(input) < 3 THEN Error
  ELSE HexByteTwo(input, SubSeq(input, 2, 3))

SimpleEscapes ==
  << <<"n", 10>>, <<"r", 13>>, <<"t", 9>>, <<"a", 7>>, <<"b", 8>>, <<"v", 11>>,
     <<"f", 12>> >>
LateEscapes == << <<"\\", 92>>, <<"'", 39>>, <<"\"", 34>> >>

\* value(byte, char(c)) for the pair of the table whose c starts the input
EscapeHit(table, input, hits) ==
  IF hits = {} THEN Error ELSE Ok(Tail(input), table[First(hits)][2])
EscapeFrom(table, input) ==
  EscapeHit(table, input,
            {i \in 1..Len(table) : input # <<>> /\ input[1] = table[i][1]})

EscapedCharAt(t) ==
  Alt(EscapeFrom(SimpleEscapes, t),
      Alt(dec_byte(t), Alt(hex_byte(t), EscapeFrom(LateEscapes, t))))
escaped_char(input) ==
  IF input = <<>> \/ input[1] # "\\" THEN Error ELSE EscapedCharAt(Tail(input))

\* a backslash, then streaming multispace1
EscapedWhitespaceAt(t, n) ==
  IF n = Len(t) THEN Incomplete
  ELSE IF n = 0 THEN Error
  ELSE Ok(Drop(t, n), Take(t, n))
EscapedWhitespaceOf(t) == EscapedWhitespaceAt(t, PrefixLen(t, SpaceSet))
escaped_whitespace(input) ==
  IF input = <<>> \/ input[1] # "\\" THEN Error ELSE EscapedWhitespaceOf(Tail(input))

\* StringFragment, as the bytes the fold adds for it: a literal's bytes, the one
\* byte of an escaped character, nothing for escaped whitespace
StringFragment(r, variant) ==
  IF r.res # "Ok" THEN r
  ELSE Ok(r.rest, IF variant = "Literal" THEN AsBytes(r.out)
                  ELSE IF variant = "EscapedChar" THEN <<r.out>>
                  ELSE <<>>)

fragment(input) ==
  Alt(StringFragment(literal(input), "Literal"),
      Alt(StringFragment(escaped_char(input), "EscapedChar"),
          StringFragment(escaped_whitespace(input), "EscapedWS")))

\* fold_many0(fragment, TinyVec::new, ...): stops at the first Error
RECURSIVE build_string(_, _)
BuildStringStep(input, string, f) ==
  IF f.res = "Ok" THEN build_string(f.rest, string \o f.out)
  ELSE IF f.res = "Error" THEN Ok(input, string)
  ELSE f
build_string(input, string) == BuildStringStep(input, string, fragment(input))

\* the closing char('"') and map(..., Token::String)
StringClose(b) ==
  IF b.res # "Ok" THEN b
  ELSE IF b.rest # <<>> /\ b.rest[1] = "\"" THEN Ok(Tail(b.rest), TokVal("String", b.out))
  ELSE Error

lex_string(input) ==
  IF input = <<>> \/ input[1] # "\"" THEN Error
  ELSE StringClose(build_string(Tail(input), <<>>))

lex_eof(input) == IF input = <<>> THEN Ok(input, Tok("Eof")) ELSE Error

LexAlt(s) ==
  Alt(lex_string(s),
  Alt(lex_comment(s),
  Alt(lex_float(s),
  Alt(lex_integer(s),
  Alt(lex_word(s),
  Alt(lex_chars(s), lex_eof(s)))))))

\* preceded(multispace0, alt((...)))
lex(input) == LexAlt(Drop(input, PrefixLen(input, SpaceSet)))

LexerNext(src) == lex(src)

----------------------------------------------------------------------------
(* Values: src/src/value.rs, src/src/str.rs *)

INLINE_CAP == 23

\* From<TinyVec<[u8; INLINE_CAP]>> for LossyStr: inline up to the capacity, else heap
LossyStr(bytes) ==
  [repr |-> IF Len(bytes) <= INLINE_CAP THEN "Inline" ELSE "Heap", bytes |-> bytes]

Nil == [tag |-> "Nil", v |-> <<>>]
Boolean(b) == [tag |-> "Boolean", v |-> b]
Integer(i) == [tag |-> "Integer", v |-> i]
Float(f) == [tag |-> "Float", v |-> f]
String(s) == [tag |-> "String", v |-> s]
Function(f) == [tag |-> "Function", v |-> f]
Identifier(s) == [tag |-> "Identifier", v |-> s]

Some(x) == [some |-> TRUE, v |-> x]
None == [some |-> FALSE, v |-> <<>>]

\* Value::as_identifier (vm.rs calls it as_str)
as_identifier(value) == IF value.tag = "Identifier" THEN Some(value.v) ELSE None

----------------------------------------------------------------------------
(* Bytecode: src/src/bytecode.rs *)

GetGlobal(a, b) == [op |-> "GetGlobal", a |-> a, b |-> b]
Move(a, b) == [op |-> "Move", a |-> a, b |-> b]
LoadConst(a, b) == [op |-> "LoadConst", a |-> a, b |-> b]
LoadNil(a) == [op |-> "LoadNil", a |-> a, b |-> 0]
LoadBool(a, b) == [op |-> "LoadBool", a |-> a, b |-> b]
LoadInt(a, b) == [op |-> "LoadInt", a |-> a, b |-> b]
Call(a, b) == [op |-> "Call", a |-> a, b |-> b]
SetGlobalConst(a, b) == [op |-> "SetGlobalConst", a |-> a, b |-> b]
SetGlobalLocal(a, b) == [op |-> "SetGlobalLocal", a |-> a, b |-> b]
SetGlobalGlobal(a, b) == [op |-> "SetGlobalGlobal", a |-> a, b |-> b]

\* the number of values of a u8 operand
U8Mod == 256

\* usize as u8
AsU8(n) == n % U8Mod

----------------------------------------------------------------------------
(* Compiler: src/src/parse.rs.  self is the record of ParseProto's fields; *)
(* each method returns the fields it leaves behind with what it returns.   *)

LexErr == [kind |-> "Lex", actual |-> <<>>, expected |-> ""]
\* UnexpectedTokenError::new(actual, expected); the backquotes of the expected texts
\* are written as apostrophes
TokenErr(actual, expected) == [kind |-> "Token", actual |-> actual, expected |-> expected]

RetOk(self, code) == [self |-> self, res |-> "Ok", code |-> code, err |-> <<>>]
RetErr(self, err) == [self |-> self, res |-> "Err", code |-> <<>>, err |-> err]

\* the value is pushed without the search for an equal entry
AddConstAlways(self, value, found) ==
  [self |-> [self EXCEPT !.constants = Append(@, value)], index |-> Len(self.constants)]

\* the index of the first entry equal to value, or the index it is pushed at
AddConstAt(self, value, found) ==
  IF found # {} THEN [self |-> self, index |-> First(found) - 1]
  ELSE [self |-> [self EXCEPT !.constants = Append(@, value)],
        index |-> Len(self.constants)]

\* entries are compared by their text and digits, whatever their variant
SameText(a, b) ==
  \/ a = b
  \/ a.tag = "Identifier" /\ b.tag = "String" /\ AsBytes(a.v) = b.v.bytes
  \/ a.tag = "String" /\ b.tag = "Identifier" /\ AsBytes(b.v) = a.v.bytes

add_const_by_text(self, value) ==
  AddConstAt(self, value, {i \in 1..Len(self.constants) : SameText(self.constants[i], value)})

add_const(self, value) ==
  AddConstAt(self, value, {i \in 1..Len(self.constants) : self.constants[i] = value})

LoadConstAt(k, dst) == RetOk(k.self, LoadConst(dst, AsU8(k.index)))
load_const(self, dst, constant) == LoadConstAt(add_const(self, constant), dst)

\* rposition: the last local of that name
Last(found) == CHOOSE i \in found : \A j \in found : j <= i
\* position in place of rposition: the first local of that name
LocalVarOldest(found) == IF found = {} THEN None ELSE Some(First(found) - 1)
LocalVarAt(found) == IF found = {} THEN None ELSE Some(Last(found) - 1)
local_var(self, name) == LocalVarAt({i \in 1..Len(self.locals) : self.locals[i] = name})

\* the name is loaded as a constant in place of being looked up
GetGlobalAsConst(k, dst) == RetOk(k.self, LoadConst(dst, AsU8(k.index)))

GetGlobalAt(k, dst) == RetOk(k.self, GetGlobal(dst, AsU8(k.index)))
LoadVarAt(self, dst, name, src) ==
  IF src.some THEN RetOk(self, Move(dst, AsU8(src.v)))
  ELSE GetGlobalAt(add_const(self, Identifier(name)), dst)
load_var(self, dst, name) == LoadVarAt(self, dst, name, local_var(self, name))

LoadInteger(self, dst, i, small) ==
  IF small.ok THEN RetOk(self, LoadInt(dst, small.i)) ELSE load_const(self, dst, Integer(i))

\* the match of load_exp on the token t that lexer.next() returned; self has consumed it
LoadExpOf(self, dst, t) ==
  IF t.tok = "Nil" THEN RetOk(self, LoadNil(dst))
  ELSE IF t.tok = "True" THEN RetOk(self, LoadBool(dst, TRUE))
  ELSE IF t.tok = "False" THEN RetOk(self, LoadBool(dst, FALSE))
  ELSE IF t.tok = "Integer" THEN LoadInteger(self, dst, t.val, i16_try_from(t.val))
  ELSE IF t.tok = "Float" THEN load_const(self, dst, Float(t.val))
  ELSE IF t.tok = "String" THEN load_const(self, dst, String(LossyStr(t.val)))
  ELSE IF t.tok = "Name" THEN load_var(self, dst, t.val)
  ELSE RetErr(self, TokenErr(t, "<expression>"))

\* self.lexer.next()?, then f on the token
LoadExpAt(self, dst, r) ==
  IF r.res # "Ok" THEN RetErr(self, LexErr)
  ELSE LoadExpOf([self EXCEPT !.source = r.rest], dst, r.out)

load_exp(self, dst) == LoadExpAt(self, dst, LexerNext(self.source))

\* SetGlobalConst(gi, self.add_const(value) as u8)
SetGlobalConstAt(k, gi) == RetOk(k.self, SetGlobalConst(gi, AsU8(k.index)))
SetGlobalConstOf(self, gi, value) == SetGlobalConstAt(add_const(self, value), gi)

SetGlobalGlobalAt(k, gi) == RetOk(k.self, SetGlobalGlobal(gi, AsU8(k.index)))
SetGlobalName(self, gi, name, src) ==
  IF src.some THEN RetOk(self, SetGlobalLocal(gi, AsU8(src.v)))
  ELSE SetGlobalGlobalAt(add_const(self, Identifier(name)), gi)

\* the match of assign on the token t of the right-hand side of a global assignment
AssignGlobalOf(self, gi, t) ==
  IF t.tok = "Nil" THEN SetGlobalConstOf(self, gi, Nil)
  ELSE IF t.tok = "True" THEN SetGlobalConstOf(self, gi, Boolean(TRUE))
  ELSE IF t.tok = "False" THEN SetGlobalConstOf(self, gi, Boolean(FALSE))
  ELSE IF t.tok = "Integer" THEN SetGlobalConstOf(self, gi, Integer(t.val))
  ELSE IF t.tok = "Float" THEN SetGlobalConstOf(self, gi, Float(t.val))
  ELSE IF t.tok = "String" THEN SetGlobalConstOf(self, gi, String(LossyStr(t.val)))
  ELSE IF t.tok = "Name" THEN SetGlobalName(self, gi, t.val, local_var(self, t.val))
  ELSE RetErr(self, TokenErr(t, "<expression>"))

AssignGlobalAt(self, gi, r) ==
  IF r.res # "Ok" THEN RetErr(self, LexErr)
  ELSE AssignGlobalOf([self EXCEPT !.source = r.rest], gi, r.out)

\* let gi = self.add_const(Value::Identifier(var)) as u8, then the match
AssignGlobal(g) == AssignGlobalAt(g.self, AsU8(g.index), LexerNext(g.self.source))

\* a known local is given the next free register in place of its own
AssignAtFresh(self, var, src) ==
  IF src.some THEN load_exp(self, AsU8(Len(self.locals)))
  ELSE AssignGlobal(add_const(self, Identifier(var)))

AssignAt(self, var, src) ==
  IF src.some THEN load_exp(self, AsU8(src.v))
  ELSE AssignGlobal(add_const(self, Identifier(var)))

assign(self, var) == AssignAt(self, var, local_var(self, var))

Push(self, code) == [self EXCEPT !.bytecodes = Append(@, code)]

\* expect_next!(self.lexer, Token::ParR, ...), then Ok(ByteCode::Call(ifunc, 1))
CallCloseAt(self, ifunc, r) ==
  IF r.res # "Ok" THEN RetErr(self, LexErr)
  ELSE IF r.out.tok # "ParR"
  THEN RetErr([self EXCEPT !.source = r.rest], TokenErr(r.out, "')'"))
  ELSE RetOk([self EXCEPT !.source = r.rest], Call(ifunc, 1))

CallClose(self, ifunc) == CallCloseAt(self, ifunc, LexerNext(self.source))

\* let code = self.load_exp(iarg)?; self.bytecodes.push(code); then the closing
CallParen(e, ifunc) == IF e.res # "Ok" THEN e ELSE CallClose(Push(e.self, e.code), ifunc)

CallString(c, ifunc) == RetOk(Push(c.self, c.code), Call(ifunc, 1))

\* the match of call_function on the token after the name; self holds the callee's code
CallArgument(self, token, ifunc, iarg) ==
  IF token.tok = "ParL" THEN CallParen(load_exp(self, iarg), ifunc)
  ELSE IF token.tok = "String"
  THEN CallString(load_const(self, iarg, String(LossyStr(token.val))), ifunc)
  ELSE RetErr(self, TokenErr(token, "'(<expression>)' or string"))

CallCallee(f, token, ifunc, iarg) == CallArgument(Push(f.self, f.code), token, ifunc, iarg)

\* let iarg = ifunc in place of ifunc + 1: the argument is loaded over the callee
CallAtShared(self, token, name, ifunc) ==
  CallCallee(load_var(self, ifunc, name), token, ifunc, ifunc)

\* iarg = ifunc + 1 is a u8 sum: this is the build in which it wraps
CallAt(self, token, name, ifunc) ==
  CallCallee(load_var(self, ifunc, name), token, ifunc, AsU8(ifunc + 1))

call_function(self, token, name) == CallAt(self, token, name, AsU8(Len(self.locals)))

\* let code = self.load_exp(self.locals.len() as u8)?; self.locals.push(var); code
LocalDeclare(e, var) ==
  IF e.res # "Ok" THEN e ELSE RetOk([e.self EXCEPT !.locals = Append(@, var)], e.code)

\* self.locals.push(var) is done before self.load_exp in place of after it
LocalAssignEager(self, var, r) ==
  IF r.res # "Ok" THEN RetErr(self, LexErr)
  ELSE IF r.out.tok # "Assign"
  THEN RetErr([self EXCEPT !.source = r.rest], TokenErr(r.out, "'='"))
  ELSE load_exp([self EXCEPT !.source = r.rest, !.locals = Append(@, var)],
                AsU8(Len(self.locals)))

\* expect_next!(self.lexer, Token::Assign, ...)
LocalAssignAt(self, var, r) ==
  IF r.res # "Ok" THEN RetErr(self, LexErr)
  ELSE IF r.out.tok # "Assign"
  THEN RetErr([self EXCEPT !.source = r.rest], TokenErr(r.out, "'='"))
  ELSE LocalDeclare(load_exp([self EXCEPT !.source = r.rest], AsU8(Len(self.locals))), var)

\* expect_next!(self.lexer, Token::Name(var), ...)
LocalNameAt(self, r) ==
  IF r.res # "Ok" THEN RetErr(self, LexErr)
  ELSE IF r.out.tok # "Name"
  THEN RetErr([self EXCEPT !.source = r.rest], TokenErr(r.out, "<variable>"))
  ELSE LocalAssignAt([self EXCEPT !.source = r.rest], r.out.val, LexerNext(r.rest))

\* the arm of Token::Local in parse
parse_local(self) == LocalNameAt(self, LexerNext(self.source))

NameAt(self, name, r) ==
  IF r.res # "Ok" THEN RetErr(self, LexErr)
  ELSE IF r.out.tok = "Assign" THEN assign([self EXCEPT !.source = r.rest], name)
  ELSE call_function([self EXCEPT !.source = r.rest], r.out, name)

\* the arm of Token::Name(name) in parse
parse_name(self, name) == NameAt(self, name, LexerNext(self.source))

----------------------------------------------------------------------------
(* Virtual machine: src/src/vm.rs *)

lib_print == "lib_print"

\* ExeState::new
NewGlobals == [k \in {<<"p", "r", "i", "n", "t">>} |-> Function(lib_print)]

\* HashMap::get(key).cloned().unwrap_or_default()
GlobalGet(g, key) == IF key \in DOMAIN g THEN g[key] ELSE Nil

\* entry(key).or_insert(value) in place of insert: the first write stays
GlobalInsertIfAbsent(g, key, value) ==
  [k \in DOMAIN g \cup {key} |-> IF k \in DOMAIN g THEN g[k] ELSE value]

\* HashMap::insert(key, value)
GlobalInsert(g, key, value) ==
  [k \in DOMAIN g \cup {key} |-> IF k = key THEN value ELSE g[k]]

\* the value is always pushed: the get_mut arm is missing
SetStackPushing(stk, dst, value) == [ok |-> dst = Len(stk), stack |-> Append(stk, value)]

\* set_stack; ok is FALSE when the assert_eq fails
set_stack(stk, dst, value) ==
  IF dst < Len(stk) THEN [ok |-> TRUE, stack |-> [stk EXCEPT ![dst + 1] = value]]
  ELSE [ok |-> dst = Len(stk), stack |-> Append(stk, value)]

\* proto.constants[i].as_str().unwrap(): the name, or a panic
ConstName(i) ==
  IF i < Len(constants) THEN as_identifier(constants[i + 1]) ELSE None

----------------------------------------------------------------------------
(* Programs.  A statement is kept with the text it is written as; a literal *)
(* is kept with its text and the value it denotes.                          *)

ENil == [e |-> "nil", text |-> <<"n", "i", "l">>, val |-> Nil]
ETrue == [e |-> "true", text |-> <<"t", "r", "u", "e">>, val |-> Boolean(TRUE)]
EFalse == [e |-> "false", text |-> <<"f", "a", "l", "s", "e">>, val |-> Boolean(FALSE)]
EInt(text, i) == [e |-> "int", text |-> text, val |-> Integer(i)]
EFloat(text, f) == [e |-> "float", text |-> text, val |-> Float(f)]
EStr(body) ==
  [e |-> "str", text |-> <<"\"">> \o body \o <<"\"">>, val |-> String(LossyStr(AsBytes(body)))]
EName(name) == [e |-> "name", text |-> name, val |-> Nil]

LocalStmt(name, exp) == [st |-> "local", name |-> name, exp |-> exp]
AssignStmt(name, exp) == [st |-> "assign", name |-> name, exp |-> exp]
CallStmt(name, exp) == [st |-> "call", name |-> name, exp |-> exp]
CallStrStmt(name, exp) == [st |-> "callstr", name |-> name, exp |-> exp]
CommentStmt(text) == [st |-> "comment", name |-> <<>>, exp |-> [e |-> "raw", text |-> text, val |-> Nil]]
RawStmt(text) == [st |-> "raw", name |-> <<>>, exp |-> [e |-> "raw", text |-> text, val |-> Nil]]

Unparse(s) ==
  IF s.st = "local"
  THEN <<"l", "o", "c", "a", "l", " ">> \o s.name \o <<" ", "=", " ">> \o s.exp.text \o <<"\n">>
  ELSE IF s.st = "assign" THEN s.name \o <<" ", "=", " ">> \o s.exp.text \o <<"\n">>
  ELSE IF s.st = "call" THEN s.name \o <<"(">> \o s.exp.text \o <<")", "\n">>
  ELSE IF s.st = "callstr" THEN s.name \o <<" ">> \o s.exp.text \o <<"\n">>
  ELSE IF s.st = "comment" THEN <<"-", "-">> \o s.exp.text \o <<"\n">>
  ELSE s.exp.text

RECURSIVE SourceOf(_)
SourceOf(p) ==
  IF p = <<>> THEN <<>>
  ELSE IF Len(p) = 1 THEN Unparse(p[1])
  ELSE SourceOf(SubSeq(p, 1, Len(p) \div 2)) \o SourceOf(SubSeq(p, Len(p) \div 2 + 1, Len(p)))

I64MaxText ==
  <<"9", "2", "2", "3", "3", "7", "2", "0", "3", "6", "8", "5", "4", "7", "7", "5", "8", "0", "7">>
I64NextText ==
  <<"9", "2", "2", "3", "3", "7", "2", "0", "3", "6", "8", "5", "4", "7", "7", "5", "8", "0", "8">>

Na == <<"a">>
Nb == <<"b">>
Ng == <<"g">>
Ng2 == <<"g", "2">>
Nprint == <<"p", "r", "i", "n", "t">>

I1 == EInt(<<"1">>, I64(FALSE, <<1>>))
I2 == EInt(<<"2">>, I64(FALSE, <<2>>))
I123 == EInt(<<"1", "2", "3">>, I64(FALSE, <<1, 2, 3>>))
I456 == EInt(<<"4", "5", "6">>, I64(FALSE, <<4, 5, 6>>))
I123456 == EInt(<<"1", "2", "3", "4", "5", "6">>, I64(FALSE, <<1, 2, 3, 4, 5, 6>>))
F123456 == EFloat(<<"1", "2", "3", "4", "5", "6", ".", "0">>, [mant |-> <<1, 9, 2, 9>>, exp |-> 6])
SHi == EStr(<<"h", "i">>)
SHelloLocal == EStr(<<"h", "e", "l", "l", "o", ",", " ", "l", "o", "c", "a", "l", "!">>)
SLocalPrint ==
  EStr(<<"I", "'", "m", " ", "l", "o", "c", "a", "l", "-", "p", "r", "i", "n", "t", "!">>)

\* the statements programs are drawn from
Pool ==
  { LocalStmt(Na, I1), LocalStmt(Na, I123456), LocalStmt(Na, EName(Na)),
    AssignStmt(Na, I123456), AssignStmt(Na, EName(Na)), AssignStmt(Ng, EName(Na)),
    AssignStmt(Nprint, I123456), LocalStmt(Nprint, EName(Nprint)),
    CallStmt(Nprint, EName(Na)), CallStmt(Nprint, EName(Ng)), CallStmt(Na, I123456),
    CallStrStmt(Nprint, SHi), AssignStmt(Ng, SHi),
    CommentStmt(<<" ", "c">>), RawStmt(<<"l", "o", "c", "a", "l", " ", "=", "\n">>),
    RawStmt(<<"@", "\n">>) }

\* the sources of the tests of src/src/tests.rs
TestPrint ==
  << CallStmt(Nprint, ENil), CallStmt(Nprint, EFalse), CallStmt(Nprint, I123),
     CallStmt(Nprint, I123456), CallStmt(Nprint, F123456) >>
TestLocalVar ==
  << LocalStmt(Na, SHelloLocal), LocalStmt(Nb, EName(Na)), CallStmt(Nprint, EName(Nb)),
     CallStmt(Nprint, EName(Nprint)), LocalStmt(Nprint, EName(Nprint)),
     CallStrStmt(Nprint, SLocalPrint) >>
TestAssignment ==
  << LocalStmt(Na, I456), AssignStmt(Na, I123), CallStmt(Nprint, EName(Na)),
     AssignStmt(Na, EName(Na)), CallStmt(Nprint, EName(Na)),
     AssignStmt(Na, EName(Ng)), CallStmt(Nprint, EName(Na)),
     AssignStmt(Ng, I123), CallStmt(Nprint, EName(Ng)),
     AssignStmt(Ng, EName(Na)), CallStmt(Nprint, EName(Ng)),
     AssignStmt(Ng, EName(Ng2)), CallStmt(Nprint, EName(Ng)) >>

\* the programs spec.md names as testable properties
ShadowProgram == << LocalStmt(Na, I1), LocalStmt(Na, I2), CallStmt(Nprint, EName(Na)) >>
UndefinedProgram == << CallStmt(Nprint, EName(Ng2)) >>
NotCallableProgram ==
  << CallStrStmt(Nprint, SHi), AssignStmt(Nprint, I1), CallStmt(Nprint, I2),
     CallStrStmt(Nprint, SHi) >>
UndefinedCalleeProgram == << AssignStmt(Ng, I1), CallStmt(Ng2, I2), AssignStmt(Ng, I2) >>
SelfAssignProgram == SubSeq(TestAssignment, 1, 5)
\* g = "g"; g = 1; g = 1.0; g = "g": a name and a string of one text, 1 and 1.0
VariantsProgram ==
  << AssignStmt(Ng, EStr(Ng)), AssignStmt(Ng, I1),
     AssignStmt(Ng, EFloat(<<"1", ".", "0">>, [mant |-> <<1>>, exp |-> 0])), AssignStmt(Ng, EStr(Ng)) >>
\* print "print"; g = print; local a = "g": names and strings of one text
NameStringProgram ==
  << CallStrStmt(Nprint, EStr(Nprint)), AssignStmt(Ng, EName(Nprint)), LocalStmt(Na, EStr(Ng)) >>
\* integer literals at the two ends of i16 and of i64, in the three places where an
\* expression is loaded into a register
IntegerBoundsProgram ==
  << LocalStmt(Na, EInt(<<"3", "2", "7", "6", "7">>, I64(FALSE, <<3, 2, 7, 6, 7>>))),
     AssignStmt(Na, EInt(<<"3", "2", "7", "6", "8">>, I64(FALSE, <<3, 2, 7, 6, 8>>))),
     CallStmt(Nprint, EInt(<<"-", "3", "2", "7", "6", "8">>, I64(TRUE, <<3, 2, 7, 6, 8>>))),
     CallStmt(Nprint, EInt(<<"-", "3", "2", "7", "6", "9">>, I64(TRUE, <<3, 2, 7, 6, 9>>))) >>
IntegerExtremesProgram ==
  << LocalStmt(Na, EInt(I64MaxText, I64(FALSE, I64MaxMag))),
     AssignStmt(Na, EInt(<<"-">> \o I64NextText, I64(TRUE, I64MinMag))),
     CallStmt(Nprint, EInt(<<"-", "1">>, I64(TRUE, <<1>>))),
     CallStmt(Nprint, EInt(<<"0", "0", "7">>, I64(FALSE, <<7>>))) >>
\* the f64 nearest to 0.1: 3602879701896397 * 2^-55
F64Tenth == [mant |-> <<3, 6, 0, 2, 8, 7, 9, 7, 0, 1, 8, 9, 6, 3, 9, 7>>, exp |-> -55]
\* g = 0.1; g = 0.10000000000000001; g = 9007199254740993.0: two literals of one f64,
\* and one that is read as 2^53
RoundedFloatsProgram ==
  << AssignStmt(Ng, EFloat(<<"0", ".", "1">>, F64Tenth)),
     AssignStmt(Ng, EFloat(<<"0", ".", "1", "0", "0", "0", "0", "0", "0", "0", "0", "0", "0",
                             "0", "0", "0", "0", "0", "1">>, F64Tenth)),
     AssignStmt(Ng, EFloat(<<"9", "0", "0", "7", "1", "9", "9", "2", "5", "4", "7", "4", "0",
                             "9", "9", "3", ".", "0">>, [mant |-> <<1>>, exp |-> 53])) >>
EmptyCommentProgram ==
  << CallStrStmt(Nprint, SHi), CommentStmt(<<>>), CallStrStmt(Nprint, SHi) >>

TestPrograms ==
  { TestPrint, TestLocalVar, TestAssignment, ShadowProgram, UndefinedProgram,
    NotCallableProgram, UndefinedCalleeProgram, SelfAssignProgram, EmptyCommentProgram,
    VariantsProgram, NameStringProgram, IntegerBoundsProgram, IntegerExtremesProgram,
    RoundedFloatsProgram }

\* the most statements of a program drawn from Pool
MaxStmts == 3

Programs == UNION {[1..n -> Pool] : n \in 0..MaxStmts} \cup TestPrograms

----------------------------------------------------------------------------
(* The run of rua(source): parse, one iteration of its loop at a time, then *)
(* execute, one instruction at a time.                                      *)

Self == [source |-> source, constants |-> constants, bytecodes |-> bytecodes,
         locals |-> locals]

RetNone == [ret |-> "none", err |-> <<>>]
RetSuccess == [ret |-> "Ok", err |-> <<>>]
RetFailure(err) == [ret |-> "Err", err |-> err]

\* the state rua(source) starts from, for the source of prog
Start ==
  /\ srctext = SourceOf(prog)
  /\ source = srctext
  /\ tokens = <<>>
  /\ constants = <<>>
  /\ bytecodes = <<>>
  /\ locals = <<>>
  /\ emitted = <<>>
  /\ globals = NewGlobals
  /\ stack = <<>>
  /\ func_index = 0
  /\ pc = 1
  /\ output = <<>>
  /\ phase = "parse"
  /\ result = RetNone

Init == prog \in Programs /\ Start

VmUnchanged == UNCHANGED <<globals, stack, func_index, pc, output>>

\* the fields of a ParseProto as the state the next iteration of parse starts from
Install(s) ==
  /\ source' = s.source
  /\ constants' = s.constants
  /\ bytecodes' = s.bytecodes
  /\ locals' = s.locals
  /\ emitted' = Append(emitted, SubSeq(s.bytecodes, Len(bytecodes) + 1, Len(s.bytecodes)))

\* the state an arm of parse leaves: its code pushed, or its error returned by rua
Arm(r) ==
  /\ Install(IF r.res = "Ok" THEN Push(r.self, r.code) ELSE r.self)
  /\ phase' = IF r.res = "Ok" THEN "parse" ELSE "failed"
  /\ result' = IF r.res = "Ok" THEN result ELSE RetFailure(r.err)
  /\ VmUnchanged
  /\ UNCHANGED <<prog, srctext, tokens>>

\* t: what self.lexer.next() returns at the top of the loop of parse
ParseLocalOn(t) ==
  /\ phase = "parse" /\ t.res = "Ok" /\ t.out.tok = "Local"
  /\ Arm(parse_local([Self EXCEPT !.source = t.rest]))

ParseLocal == ParseLocalOn(LexerNext(source))

SecondIsAssign(r) == r.res = "Ok" /\ r.out.tok = "Assign"

ParseAssignOn(t) ==
  /\ phase = "parse" /\ t.res = "Ok" /\ t.out.tok = "Name"
  /\ SecondIsAssign(LexerNext(t.rest))
  /\ Arm(parse_name([Self EXCEPT !.source = t.rest], t.out.val))

ParseAssign == ParseAssignOn(LexerNext(source))

ParseCallOn(t) ==
  /\ phase = "parse" /\ t.res = "Ok" /\ t.out.tok = "Name"
  /\ ~SecondIsAssign(LexerNext(t.rest))
  /\ Arm(parse_name([Self EXCEPT !.source = t.rest], t.out.val))

ParseCall == ParseCallOn(LexerNext(source))

\* let iarg = ifunc + 1 with ifunc = 255: a build with overflow checks panics here,
\* one without them goes on with iarg = 0 (ParseCall)
ParseCallOverflowOn(t) ==
  /\ phase = "parse" /\ t.res = "Ok" /\ t.out.tok = "Name"
  /\ ~SecondIsAssign(LexerNext(t.rest))
  /\ LexerNext(t.rest).res = "Ok"
  /\ AsU8(Len(locals)) = U8Mod - 1
  /\ phase' = "panic"
  /\ VmUnchanged
  /\ UNCHANGED <<prog, srctext, source, tokens, constants, bytecodes, locals, emitted, result>>

ParseCallOverflow == ParseCallOverflowOn(LexerNext(source))

\* Token::Comment => continue
ParseCommentOn(t) ==
  /\ phase = "parse" /\ t.res = "Ok" /\ t.out.tok = "Comment"
  /\ source' = t.rest
  /\ emitted' = Append(emitted, <<>>)
  /\ VmUnchanged
  /\ UNCHANGED <<prog, srctext, tokens, constants, bytecodes, locals, phase, result>>

ParseComment == ParseCommentOn(LexerNext(source))

\* Token::Eof => break; parse returns Ok(self), rua builds ExeState::new() and executes
ParseEofOn(t) ==
  /\ phase = "parse" /\ t.res = "Ok" /\ t.out.tok = "Eof"
  /\ source' = t.rest
  /\ phase' = "exec"
  /\ globals' = NewGlobals
  /\ stack' = <<>>
  /\ func_index' = 0
  /\ pc' = 1
  /\ UNCHANGED <<prog, srctext, tokens, constants, bytecodes, locals, emitted, output, result>>

ParseEof == ParseEofOn(LexerNext(source))

\* the token is skipped and the loop goes on, in place of the return of the error
ParseUnexpectedSkipping(t) ==
  /\ phase = "parse"
  /\ ~(t.res = "Ok" /\ t.out.tok \in {"Local", "Name", "Eof", "Comment"})
  /\ source' = IF t.res = "Ok" THEN t.rest ELSE Tail(source)
  /\ emitted' = Append(emitted, <<>>)
  /\ VmUnchanged
  /\ UNCHANGED <<prog, srctext, tokens, constants, bytecodes, locals, phase, result>>

\* self.lexer.next()? fails, or t => bail!(t)
ParseUnexpectedOn(t) ==
  /\ phase = "parse"
  /\ ~(t.res = "Ok" /\ t.out.tok \in {"Local", "Name", "Eof", "Comment"})
  /\ Arm(IF t.res # "Ok" THEN RetErr(Self, LexErr)
         ELSE RetErr([Self EXCEPT !.source = t.rest], TokenErr(t.out, "")))

ParseUnexpected == ParseUnexpectedOn(LexerNext(source))

ParseUnchanged == UNCHANGED <<prog, srctext, source, tokens, constants, bytecodes, locals, emitted>>

Executing(op) == phase = "exec" /\ pc <= Len(bytecodes) /\ bytecodes[pc].op = op

code == bytecodes[pc]

\* an instruction that only writes a register: R[dst] := value
WriteRegister(dst, value) ==
  LET w == set_stack(stack, dst, value)
  IN /\ stack' = w.stack
     /\ phase' = IF w.ok THEN "exec" ELSE "panic"
     /\ pc' = pc + 1
     /\ UNCHANGED <<globals, func_index, output, result>>
     /\ ParseUnchanged

\* an instruction that only writes a global: G[key] := value
WriteGlobal(key, value) ==
  /\ globals' = GlobalInsert(globals, key, value)
  /\ pc' = pc + 1
  /\ UNCHANGED <<stack, func_index, output, phase, result>>
  /\ ParseUnchanged

\* an index out of bounds or an unwrap of None
Panic ==
  /\ phase' = "panic"
  /\ UNCHANGED <<globals, stack, func_index, pc, output, result>>
  /\ ParseUnchanged

\* globals[name].clone() in place of get(name).cloned().unwrap_or_default()
ExecGetGlobalIndexed ==
  /\ Executing("GetGlobal")
  /\ IF ConstName(code.b).some /\ ConstName(code.b).v \in DOMAIN globals
     THEN WriteRegister(code.a, globals[ConstName(code.b).v])
     ELSE Panic

ExecGetGlobal ==
  /\ Executing("GetGlobal")
  /\ IF ConstName(code.b).some
     THEN WriteRegister(code.a, GlobalGet(globals, ConstName(code.b).v))
     ELSE Panic

ExecMove ==
  /\ Executing("Move")
  /\ IF code.b < Len(stack) THEN WriteRegister(code.a, stack[code.b + 1]) ELSE Panic

ExecLoadNil == Executing("LoadNil") /\ WriteRegister(code.a, Nil)

ExecLoadBool == Executing("LoadBool") /\ WriteRegister(code.a, Boolean(code.b))

ExecLoadInt == Executing("LoadInt") /\ WriteRegister(code.a, Integer(I64Of(code.b)))

ExecLoadConst ==
  /\ Executing("LoadConst")
  /\ IF code.b < Len(constants) THEN WriteRegister(code.a, constants[code.b + 1]) ELSE Panic

\* lib_print: println!("{:?}", self.stack[self.func_index + 1])
CallHost(f, base) ==
  IF f = lib_print /\ base + 1 < Len(stack)
  THEN /\ output' = Append(output, stack[base + 2])
       /\ phase' = "exec"
  ELSE /\ output' = output
       /\ phase' = "panic"

\* if let Value::Function(f) = v { f(self); } with no else branch
ExecCallSkipping ==
  /\ Executing("Call")
  /\ func_index' = code.a
  /\ IF code.a >= Len(stack)
     THEN /\ phase' = "panic"
          /\ UNCHANGED <<pc, output>>
     ELSE /\ IF stack[code.a + 1].tag = "Function"
             THEN CallHost(stack[code.a + 1].v, code.a)
             ELSE UNCHANGED <<phase, output>>
          /\ pc' = pc + 1
  /\ UNCHANGED <<globals, stack, result>>
  /\ ParseUnchanged

\* the error is kept for the end of the loop in place of bail!
ExecCallDeferring ==
  /\ Executing("Call")
  /\ func_index' = code.a
  /\ IF code.a >= Len(stack)
     THEN /\ phase' = "panic"
          /\ UNCHANGED <<pc, output, result>>
     ELSE /\ IF stack[code.a + 1].tag = "Function"
             THEN /\ CallHost(stack[code.a + 1].v, code.a)
                  /\ result' = result
             ELSE /\ result' = RetFailure([kind |-> "NotAFunction",
                                           actual |-> stack[code.a + 1], expected |-> ""])
                  /\ UNCHANGED <<phase, output>>
          /\ pc' = pc + 1
  /\ UNCHANGED <<globals, stack>>
  /\ ParseUnchanged

(* Call(func, _): self.func_index = func comes first, so it is kept when the *)
(* read of self.stack[self.func_index] that follows is out of bounds.        *)
ExecCall ==
  /\ Executing("Call")
  /\ func_index' = code.a
  /\ IF code.a >= Len(stack)
     THEN /\ phase' = "panic"
          /\ UNCHANGED <<pc, output, result>>
     ELSE IF stack[code.a + 1].tag = "Function"
     THEN /\ CallHost(stack[code.a + 1].v, code.a)
          /\ pc' = pc + 1
          /\ result' = result
     ELSE /\ phase' = "failed"
          /\ result' = RetFailure([kind |-> "NotAFunction", actual |-> stack[code.a + 1],
                                   expected |-> ""])
          /\ UNCHANGED <<pc, output>>
  /\ UNCHANGED <<globals, stack>>
  /\ ParseUnchanged

ExecSetGlobalConst ==
  /\ Executing("SetGlobalConst")
  /\ IF ConstName(code.a).some /\ code.b < Len(constants)
     THEN WriteGlobal(ConstName(code.a).v, constants[code.b + 1])
     ELSE Panic

ExecSetGlobalLocal ==
  /\ Executing("SetGlobalLocal")
  /\ IF ConstName(code.a).some /\ code.b < Len(stack)
     THEN WriteGlobal(ConstName(code.a).v, stack[code.b + 1])
     ELSE Panic

ExecSetGlobalGlobal ==
  /\ Executing("SetGlobalGlobal")
  /\ IF ConstName(code.a).some /\ ConstName(code.b).some
     THEN WriteGlobal(ConstName(code.a).v, GlobalGet(globals, ConstName(code.b).v))
     ELSE Panic

\* the for loop of execute is over: Ok(())
ExecReturn ==
  /\ phase = "exec" /\ pc > Len(bytecodes)
  /\ phase' = "done"
  /\ result' = RetSuccess
  /\ UNCHANGED <<globals, stack, func_index, pc, output>>
  /\ ParseUnchanged

Next ==
  \/ ParseLocal \/ ParseAssign \/ ParseCall \/ ParseComment \/ ParseEof \/ ParseUnexpected
  \/ ExecGetGlobal \/ ExecMove \/ ExecLoadNil \/ ExecLoadBool \/ ExecLoadInt
  \/ ExecLoadConst \/ ExecCall \/ ExecSetGlobalConst \/ ExecSetGlobalLocal
  \/ ExecSetGlobalGlobal \/ ExecReturn

Spec == Init /\ [][Next]_vars

\* Programs that fill the registers: 255 local declarations and a call, whose
\* callee goes to register 255; 257 local declarations, one more than an 8-bit
\* operand can number, and a call that prints the first.
FullFrameProgram ==
  [k \in 1..U8Mod |-> IF k < U8Mod THEN LocalStmt(Na, ENil) ELSE CallStmt(Nprint, EName(Na))]

OverfullProgram ==
  [k \in 1..(U8Mod + 2) |->
     IF k = 1 THEN LocalStmt(Na, I1)
     ELSE IF k <= U8Mod + 1 THEN LocalStmt(Nb, ENil)
     ELSE CallStmt(Nprint, EName(Na))]

\* the integer literal n, written in decimal
EIntOf(n) ==
  EInt([i \in 1..Len(NatToDigits(n)) |-> DigitChars[NatToDigits(n)[i] + 1]],
       I64(FALSE, NatToDigits(n)))

\* A program that fills the pool: a is given 256 integers too large for LoadInt, which
\* take the entries 0..255, and print(a) then adds the 257th entry, the name print.
FullPoolProgram ==
  [k \in 1..(U8Mod + 1) |->
     IF k = 1 THEN LocalStmt(Na, EIntOf(I16MinMag))
     ELSE IF k <= U8Mod THEN AssignStmt(Na, EIntOf(I16MinMag + k - 1))
     ELSE CallStmt(Nprint, EName(Na))]

WidePrograms ==
  {FullFrameProgram, OverfullProgram, FullPoolProgram} \cup TestPrograms \cup {<<s>> : s \in Pool}

InitWide == prog \in WidePrograms /\ Start

NextWide == Next \/ ParseCallOverflow

SpecWide == InitWide /\ [][NextWide]_vars

----------------------------------------------------------------------------
(* What a program denotes, statement by statement: the bindings of the     *)
(* names declared local, oldest first, the global table and the values     *)
(* printed.  Properties of the compiled code are stated against it.        *)

\* the names the statements p[1..k] declare local, oldest first
RECURSIVE DeclaredBetween(_, _, _)
DeclaredBetween(p, lo, hi) ==
  IF lo > hi THEN <<>>
  ELSE IF lo = hi THEN (IF p[lo].st = "local" THEN <<p[lo].name>> ELSE <<>>)
  ELSE DeclaredBetween(p, lo, (lo + hi) \div 2) \o DeclaredBetween(p, (lo + hi) \div 2 + 1, hi)

DeclaredIn(p, k) == DeclaredBetween(p, 1, k)

IsDeclared(d, x) == \E i \in 1..Len(d) : d[i] = x

\* the register of the most recent declaration of x in d
NewestOf(d, x) == Last({i \in 1..Len(d) : d[i] = x}) - 1

IsBound(r, x) == \E i \in 1..Len(r.binds) : r.binds[i].name = x
NewestBinding(r, x) == Last({i \in 1..Len(r.binds) : r.binds[i].name = x})

LookupIn(r, x) ==
  IF IsBound(r, x) THEN r.binds[NewestBinding(r, x)].val ELSE GlobalGet(r.globals, x)

ValueIn(r, exp) == IF exp.e = "name" THEN LookupIn(r, exp.text) ELSE exp.val

DenoteStart == [binds |-> <<>>, globals |-> NewGlobals, out |-> <<>>, failed |-> FALSE]

DenoteLocal(r, s) ==
  [r EXCEPT !.binds = Append(@, [name |-> s.name, val |-> ValueIn(r, s.exp)])]

DenoteAssign(r, s) ==
  IF IsBound(r, s.name)
  THEN [r EXCEPT !.binds[NewestBinding(r, s.name)].val = ValueIn(r, s.exp)]
  ELSE [r EXCEPT !.globals = GlobalInsert(@, s.name, ValueIn(r, s.exp))]

DenoteCall(r, s) ==
  IF LookupIn(r, s.name).tag = "Function"
  THEN [r EXCEPT !.out = Append(@, ValueIn(r, s.exp))]
  ELSE [r EXCEPT !.failed = TRUE]

DenoteStmt(r, s) ==
  IF r.failed THEN r
  ELSE IF s.st = "local" THEN DenoteLocal(r, s)
  ELSE IF s.st = "assign" THEN DenoteAssign(r, s)
  ELSE IF s.st \in {"call", "callstr"} THEN DenoteCall(r, s)
  ELSE r

\* what the statements p[1..k] denote
RECURSIVE Denote(_, _)
Denote(p, k) == IF k = 0 THEN DenoteStart ELSE DenoteStmt(Denote(p, k - 1), p[k])

\* the number of instructions the first k iterations of parse emitted
RECURSIVE CodeEnd(_)
CodeEnd(k) == IF k = 0 THEN 0 ELSE CodeEnd(k - 1) + Len(emitted[k])

\* the statements the machine has finished: the next instruction is the first after them
Finished == {k \in 0..Len(emitted) : phase \in {"exec", "done"} /\ CodeEnd(k) = pc - 1}

\* a statement's reference to the declared name x is compiled to register NewestOf(d, x)
ReadsNewest(s, c, d) ==
  /\ s.st = "local" /\ s.exp.e = "name" /\ IsDeclared(d, s.exp.text)
       => c = <<Move(Len(d), NewestOf(d, s.exp.text))>>
  /\ s.st = "assign" /\ IsDeclared(d, s.name)
       => Len(c) = 1 /\ c[1].op \notin {"SetGlobalConst", "SetGlobalLocal", "SetGlobalGlobal", "Call"}
          /\ c[1].a = NewestOf(d, s.name)
  /\ s.st = "assign" /\ s.exp.e = "name" /\ IsDeclared(d, s.exp.text)
       => Len(c) = 1 /\ c[1].op \in {"Move", "SetGlobalLocal"}
          /\ c[1].b = NewestOf(d, s.exp.text)
  /\ s.st \in {"call", "callstr"} /\ IsDeclared(d, s.name)
       => Len(c) = 3 /\ c[1] = Move(Len(d), NewestOf(d, s.name))
  /\ s.st = "call" /\ s.exp.e = "name" /\ IsDeclared(d, s.exp.text)
       => Len(c) = 3 /\ c[2] = Move(Len(d) + 1, NewestOf(d, s.exp.text))

\* every binding, shadowed or not, is in its own register with its value
BindingsHeld(r) ==
  /\ ~r.failed
  /\ Len(r.binds) <= Len(stack)
  /\ \A i \in 1..Len(r.binds) : stack[i] = r.binds[i].val

\* C1: a reference to a local name, written as a callee, an argument, the target or
\* the right-hand side of an assignment or a local initialiser, is compiled to the
\* register of the most recent declaration of that name, and every earlier
\* declaration keeps its own register and its value while the program runs.
C1_ShadowingResolvesNewest ==
  /\ \A k \in 1..Len(emitted) : ReadsNewest(prog[k], emitted[k], DeclaredIn(prog, k - 1))
  /\ \A k \in Finished : BindingsHeld(Denote(prog, k))

\* local a = 1; local a = 2; print(a) has printed 2 and register 0 still holds 1
C1_Witness ==
  /\ prog = ShadowProgram /\ phase = "done"
  /\ emitted[3][2] = Move(3, 1)
  /\ output = <<Integer(I64Of(2))>>
  /\ stack[1] = Integer(I64Of(1)) /\ stack[2] = Integer(I64Of(2))

\* the instruction at pc names a global that has no entry in the global table
ReadsMissing(i) == ConstName(i).some /\ ConstName(i).v \notin DOMAIN globals

GetGlobalOfMissing ==
  Executing("GetGlobal") /\ ReadsMissing(code.b)
    => phase' = "exec" /\ result' = result /\ stack'[code.a + 1] = Nil

SetGlobalGlobalOfMissing ==
  Executing("SetGlobalGlobal") /\ ConstName(code.a).some /\ ReadsMissing(code.b)
    => phase' = "exec" /\ result' = result /\ globals'[ConstName(code.a).v] = Nil

\* print(undefined_name) never fails, and when it has run it has printed nil
UndefinedPrintsNil ==
  prog = UndefinedProgram
    => /\ phase \notin {"failed", "panic"}
       /\ phase = "done" => output = <<Nil>> /\ result = RetSuccess

\* C2: reading a global name that has no entry in the global table yields Nil and
\* is no error, for GetGlobal and for the right-hand side of SetGlobalGlobal alike;
\* print(undefined_name) prints nil and execute returns Ok.
C2_GlobalDefaultRead ==
  /\ [][GetGlobalOfMissing /\ SetGlobalGlobalOfMissing]_vars
  /\ []UndefinedPrintsNil

\* test_assignment has run: a = g and g = g2 both read a missing global as Nil
C2_Witness ==
  /\ prog = TestAssignment /\ phase = "done" /\ result = RetSuccess
  /\ Ng2 \notin DOMAIN globals /\ globals[Ng] = Nil
  /\ output[3] = Nil /\ output[6] = Nil

NotAFunction(v) == RetFailure([kind |-> "NotAFunction", actual |-> v, expected |-> ""])

RuntimeError == result.ret = "Err" /\ result.err.kind = "NotAFunction"
CompileError == result.ret = "Err" /\ result.err.kind \in {"Lex", "Token"}

\* a Call whose callee register holds a value that is no Function
CallOfNonFunction ==
  Executing("Call") /\ code.a < Len(stack) /\ stack[code.a + 1].tag # "Function"

CallOfNonFunctionFails ==
  CallOfNonFunction
    => /\ phase' = "failed"
       /\ result' = NotAFunction(stack[code.a + 1])
       /\ output' = output

\* an undefined global is called: the error names nil and nothing is printed
UndefinedCalleeFails ==
  prog = UndefinedCalleeProgram /\ phase \in {"done", "failed"}
    => result = NotAFunction(Nil) /\ output = <<>>

\* C3: a Call whose callee register holds a value that is not a Function makes
\* execute return the runtime error that names that value, and no host function
\* runs for that call: nothing is printed by it.
C3_CallOnNonFunction ==
  /\ [][CallOfNonFunctionFails]_vars
  /\ []UndefinedCalleeFails

\* print "hi"; print = 1; print(2); print "hi" has failed at print(2), naming 1
C3_Witness ==
  /\ prog = NotCallableProgram /\ phase = "failed"
  /\ result = NotAFunction(Integer(I64Of(1)))
  /\ output = <<SHi.val>>

\* the statement whose code holds the instruction at pc
RunningStmt == CHOOSE k \in 1..Len(emitted) : CodeEnd(k - 1) < pc /\ pc <= CodeEnd(k)

\* what the statements before the failing one did is all there, as they left it
EffectsKept(r) ==
  /\ BindingsHeld(r)
  /\ globals = r.globals
  /\ output = r.out

FailureKeepsEffects ==
  RuntimeError
    => /\ pc <= Len(bytecodes) /\ bytecodes[pc].op = "Call"
       /\ EffectsKept(Denote(prog, RunningStmt - 1))

\* C4: once a Call has failed no later instruction of the chunk is executed, and
\* what the instructions before it wrote to the registers and the global table
\* and what they printed remains as it was when the Call failed.
C4_StopsAtFirstRuntimeError ==
  /\ [][~RuntimeError]_vars
  /\ [][CallOfNonFunction => globals' = globals /\ stack' = stack /\ output' = output]_vars
  /\ []FailureKeepsEffects

\* g = 1; g2(2); g = 2 has failed at g2(2): g is 1 and was not set to 2
C4_Witness ==
  /\ prog = UndefinedCalleeProgram /\ RuntimeError
  /\ globals[Ng] = Integer(I64Of(1))
  /\ pc = 4 /\ Len(bytecodes) = 5

HasMalformed == \E k \in 1..Len(prog) : prog[k].st = "raw"

NothingExecuted ==
  pc = 1 /\ output = <<>> /\ stack = <<>> /\ globals = NewGlobals /\ func_index = 0

\* execution starts only when every statement of the source has been compiled
ExecutesWholeSource ==
  phase \in {"exec", "done", "panic"} \/ RuntimeError
    => source = <<>> /\ Len(emitted) = Len(prog) /\ ~HasMalformed

\* C5: when lexing or parsing fails anywhere in the source the run ends with that
\* error and no instruction is executed: nothing is printed, not even by the
\* well-formed statements before the malformed one.
C5_CompileErrorIsTerminal ==
  /\ [][~CompileError]_vars
  /\ [](CompileError => phase = "failed" /\ NothingExecuted)
  /\ [](HasMalformed => NothingExecuted)
  /\ []ExecutesWholeSource

\* print "hi" before a malformed local statement: the error is returned, nothing printed
C5_Witness ==
  /\ Len(prog) = 2 /\ prog[1] = CallStrStmt(Nprint, SHi) /\ prog[2].st = "raw"
  /\ CompileError /\ result.err.kind = "Token"
  /\ Len(emitted[1]) = 3 /\ output = <<>>

\* statement k is compiled and its expression is a literal
IsLiteral(s) == s.st \in {"local", "assign", "call", "callstr"} /\ s.exp.e \notin {"name", "raw"}
LiteralCompiled(k) ==
  /\ IsLiteral(prog[k])
  /\ Len(emitted[k]) = IF prog[k].st \in {"call", "callstr"} THEN 3 ELSE 1

\* the instruction the literal of statement k is compiled to
LiteralCode(k) == IF prog[k].st \in {"call", "callstr"} THEN emitted[k][2] ELSE emitted[k][1]

EntriesOf(v) == {i \in 1..Len(constants) : constants[i] = v}

\* the instruction references the one pool entry that holds v
ReferencesEntry(i, v) ==
  /\ i.op \in {"LoadConst", "SetGlobalConst"}
  /\ Cardinality(EntriesOf(v)) = 1
  /\ i.b + 1 \in EntriesOf(v)

\* the instruction carries v itself and no pool index
Immediate(i, v) ==
  \/ i.op = "LoadNil" /\ v = Nil
  \/ i.op = "LoadBool" /\ v = Boolean(i.b)
  \/ i.op = "LoadInt" /\ v = Integer(I64Of(i.b))

\* the literals that reach the pool: every literal assigned to a global, and the
\* floats, the strings and the integers outside i16 wherever they stand
IsPooled(s, d) ==
  \/ s.st = "assign" /\ ~IsDeclared(d, s.name)
  \/ s.exp.e \in {"float", "str"}
  \/ s.exp.e = "int" /\ ~i16_try_from(s.exp.val.v).ok

LiteralLowered(k, i, v) ==
  IF IsPooled(prog[k], DeclaredIn(prog, k - 1))
  THEN ReferencesEntry(i, v)
  ELSE Immediate(i, v)

NoEqualEntries == \A i, j \in 1..Len(constants) : constants[i] = constants[j] => i = j

\* C6 as spec.md states it: two identical literals anywhere in a chunk leave exactly
\* one constant-pool entry for the literal, and both occurrences reference it by index.
C6_EveryLiteralPairSharesOneEntry ==
  \A j, k \in 1..Len(emitted) :
    j < k /\ LiteralCompiled(j) /\ LiteralCompiled(k) /\ prog[j].exp = prog[k].exp
      => /\ ReferencesEntry(LiteralCode(j), prog[j].exp.val)
         /\ ReferencesEntry(LiteralCode(k), prog[k].exp.val)

\* C6, amended: a pool of at most 256 entries never holds two equal entries, and an
\* occurrence of a literal that is compiled through the pool (any literal assigned
\* to a global; a float, a string or an integer outside i16 in a local declaration,
\* a local assignment or a call argument) references the one entry equal to it by
\* its index, while nil, true, false and an integer within i16 written to a register
\* are carried by the instruction itself and reference no entry.
C6_PooledLiteralsShareOneEntry ==
  Len(constants) <= U8Mod
    => /\ NoEqualEntries
       /\ \A k \in 1..Len(emitted) :
            LiteralCompiled(k) => LiteralLowered(k, LiteralCode(k), prog[k].exp.val)

\* a = 123456; local a = 123456; a = 123456 is compiled: one entry, three references
C6_Witness ==
  /\ prog = <<AssignStmt(Na, I123456), LocalStmt(Na, I123456), AssignStmt(Na, I123456)>>
  /\ phase = "exec"
  /\ constants = <<Identifier(Na), I123456.val>>
  /\ bytecodes = <<SetGlobalConst(0, 1), LoadConst(0, 1), LoadConst(0, 1)>>

\* the instruction at pc belongs to an assignment whose target resolves to a local
LocalAssignRuns ==
  /\ phase = "exec" /\ pc <= Len(bytecodes)
  /\ prog[RunningStmt].st = "assign"
  /\ IsDeclared(DeclaredIn(prog, RunningStmt - 1), prog[RunningStmt].name)

TargetRegister == NewestOf(DeclaredIn(prog, RunningStmt - 1), prog[RunningStmt].name)

\* the step writes the target's register and nothing else; x = x writes back what x holds
WritesOnlyTarget ==
  LocalAssignRuns
    => /\ phase' = "exec" /\ pc' = pc + 1
       /\ globals' = globals /\ output' = output
       /\ Len(stack') = Len(stack)
       /\ \A i \in 1..Len(stack) : i # TargetRegister + 1 => stack'[i] = stack[i]
       /\ prog[RunningStmt].exp = EName(prog[RunningStmt].name) => stack' = stack

\* an assignment to a known local is one instruction that writes a register: the local's
OneRegisterWrite(s, c, d) ==
  s.st = "assign" /\ IsDeclared(d, s.name)
    => /\ Len(c) = 1
       /\ c[1].op \in {"Move", "LoadNil", "LoadBool", "LoadInt", "LoadConst", "GetGlobal"}
       /\ c[1].a = NewestOf(d, s.name)

\* the locals table holds the declared names and no assignment has added to it
LocalsAreDeclared ==
  /\ \A k \in 1..Len(emitted) : OneRegisterWrite(prog[k], emitted[k], DeclaredIn(prog, k - 1))
  /\ locals = DeclaredIn(prog, Len(emitted))

\* every read after the assignment finds the assigned value: registers, globals and
\* output are what the finished statements denote
ReadsFindAssigned ==
  /\ \A k \in Finished : EffectsKept(Denote(prog, k))
  /\ prog = SelfAssignProgram /\ phase = "done" => output = <<I123.val, I123.val>>

\* C7: x = <expr> with x a known local emits exactly one instruction, whose
\* destination is x's register; it leaves the locals table, every other register
\* and the global table unchanged; later reads of x find the assigned value; x = x
\* leaves x's value unchanged; local a = 456, a = 123, print(a), a = a, print(a)
\* prints 123 twice.
C7_LocalAssignWritesItsRegister ==
  /\ [][WritesOnlyTarget]_vars
  /\ []LocalsAreDeclared
  /\ []ReadsFindAssigned

\* local a = 456; a = 123; print(a); a = a; print(a) has run
C7_Witness ==
  /\ prog = SelfAssignProgram /\ phase = "done"
  /\ bytecodes[2] = LoadInt(0, 123) /\ bytecodes[6] = Move(0, 0)
  /\ locals = <<Na>> /\ stack[1] = I123.val
  /\ output = <<I123.val, I123.val>>

\* local x = <name> reads the name as it is bound before this statement
InitialiserReadsEarlier(s, c, d) ==
  s.st = "local" /\ s.exp.e = "name"
    => /\ Len(c) = 1 /\ c[1].a = Len(d)
       /\ IF IsDeclared(d, s.exp.text)
          THEN c[1] = Move(Len(d), NewestOf(d, s.exp.text))
          ELSE /\ c[1].op = "GetGlobal" /\ c[1].b < Len(constants)
               /\ constants[c[1].b + 1] = Identifier(s.exp.text)

\* when local x = <expr> has run, x's register holds what <expr> denoted before it
InitialiserValue(k, d, r) ==
  prog[k].st = "local"
    => Len(d) < Len(stack) /\ stack[Len(d) + 1] = ValueIn(r, prog[k].exp)

\* test_local_var: the local print holds the host function and print "..." calls it
LocalPrintCalls ==
  prog = TestLocalVar
    => /\ phase \notin {"failed", "panic"}
       /\ phase = "done"
            => /\ emitted[5] = <<GetGlobal(2, 1)>> /\ constants[2] = Identifier(Nprint)
               /\ emitted[6][1] = Move(3, 2) /\ stack[3] = Function(lib_print)
               /\ result = RetSuccess /\ output[3] = SLocalPrint.val

\* C8: in local x = <expr> the expression is compiled against the locals declared
\* before the statement and x is recorded afterwards: x inside <expr> is the earlier
\* local x if there is one and the global x otherwise; after local print = print
\* the local holds the host function and print "..." calls it from its register.
C8_LocalDeclaredAfterInitialiser ==
  /\ \A k \in 1..Len(emitted) :
       InitialiserReadsEarlier(prog[k], emitted[k], DeclaredIn(prog, k - 1))
  /\ \A k \in Finished \ {0} :
       CodeEnd(k - 1) < CodeEnd(k)
         => InitialiserValue(k, DeclaredIn(prog, k - 1), Denote(prog, k - 1))
  /\ LocalPrintCalls

\* test_local_var has run: register 2 holds lib_print and the last call printed
C8_Witness ==
  /\ prog = TestLocalVar /\ phase = "done" /\ result = RetSuccess
  /\ locals = <<Na, Nb, Nprint>> /\ stack[3] = Function(lib_print)
  /\ emitted[6][1] = Move(3, 2)
  /\ output = <<SHelloLocal.val, Function(lib_print), SLocalPrint.val>>

----------------------------------------------------------------------------
(* The lexer alone: Lexer::next called until Eof or an error, on sources   *)
(* put together from operators, numeric literals and what may follow them. *)

Piece(kind, text, tok) == [kind |-> kind, text |-> text, tok |-> tok]
Operator(text) == Piece("op", text, UnitTokenGet(text))
IntegerPiece(text, i) == Piece("num", text, TokVal("Integer", i))
FloatPiece(text, f) == Piece("num", text, TokVal("Float", f))
Terminator(text) == Piece("end", text, Tok("none"))
\* a double-quoted literal with the bytes it is written to denote
StringPiece(body, bytes) ==
  Piece("str", <<"\"">> \o body \o <<"\"">>, TokVal("String", bytes))


\* the pieces a source is put together from
Pieces ==
  << Operator(<<"<", "<">>), Operator(<<">", ">">>), Operator(<<"/", "/">>),
     Operator(<<"=", "=">>), Operator(<<"~", "=">>), Operator(<<"<", "=">>),
     Operator(<<">", "=">>), Operator(<<":", ":">>), Operator(<<".", ".">>),
     Operator(<<".", ".", ".">>),
     Operator(<<"<">>), Operator(<<">">>), Operator(<<"/">>), Operator(<<"=">>),
     Operator(<<"~">>), Operator(<<":">>), Operator(<<".">>),
     IntegerPiece(<<"4", "2">>, I64(FALSE, <<4, 2>>)),
     IntegerPiece(<<"0", "0", "7">>, I64(FALSE, <<7>>)),
     IntegerPiece(<<"-", "5">>, I64(TRUE, <<5>>)),
     IntegerPiece(I64MaxText, I64(FALSE, I64MaxMag)),
     IntegerPiece(<<"-">> \o I64NextText, I64(TRUE, I64MinMag)),
     Piece("big", I64NextText, Tok("none")),
     FloatPiece(<<"4", "2", ".", "5">>, [mant |-> <<8, 5>>, exp |-> -1]),
     FloatPiece(<<".", "5">>, [mant |-> <<1>>, exp |-> -1]),
     FloatPiece(<<"4", "2", "e", "2">>, [mant |-> <<5, 2, 5>>, exp |-> 3]),
     FloatPiece(<<"4", "2", ".", "5", "E", "-", "1">>, [mant |-> <<1, 7>>, exp |-> -2]),
     FloatPiece(<<"4", "2", ".">>, [mant |-> <<2, 1>>, exp |-> 1]),
     FloatPiece(<<"0", ".", "1">>, F64Tenth),
     FloatPiece(<<"1", "e", "-", "6", "5", "5", "3", "6", "0">>, Zero),
     FloatPiece(<<"1", "e", "2", "3">>,
                [mant |-> <<2, 9, 8, 0, 2, 3, 2, 2, 3, 8, 7, 6, 9, 5, 3, 1>>, exp |-> 25]),
     Terminator(<<" ">>), Terminator(<<"\n">>), Terminator(<<")">>), Terminator(<<",">>),
     Terminator(<<"@">>),
     StringPiece(<<>>, <<>>),
     StringPiece(<<"a", "b", " ", "c">>, <<97, 98, 32, 99>>),
     StringPiece(<<"a", "\\", "n", "b">>, <<97, 10, 98>>),
     StringPiece(<<"\\", "6", "5">>, <<65>>),
     StringPiece(<<"\\", "0", "6", "5", "1">>, <<65, 49>>),
     StringPiece(<<"\\", "x", "4", "1">>, <<65>>),
     StringPiece(<<"\\", "x", "4", "1", "1">>, <<65, 49>>),
     StringPiece(<<"\\", "\\", "\\", "\"", "\\", "t">>, <<92, 34, 9>>),
     StringPiece(<<"a", "\\", " ", "\n", "b">>, <<97, 98>>),
     StringPiece(<<"\\", "x", "4", "z">>, <<4, 122>>),
     StringPiece(<<"\\", "x", "4">>, <<4>>) >>

\* the most pieces of a source
MaxPieces == 2

RECURSIVE TextOf(_)
TextOf(p) == IF p = <<>> THEN <<>> ELSE Pieces[Head(p)].text \o TextOf(Tail(p))

InitLex ==
  /\ prog \in UNION {[1..n -> 1..Len(Pieces)] : n \in 1..MaxPieces}
  /\ srctext = TextOf(prog)
  /\ source = srctext
  /\ tokens = <<>>
  /\ constants = <<>>
  /\ bytecodes = <<>>
  /\ locals = <<>>
  /\ emitted = <<>>
  /\ globals = NewGlobals
  /\ stack = <<>>
  /\ func_index = 0
  /\ pc = 1
  /\ output = <<>>
  /\ phase = "lex"
  /\ result = RetNone

LexUnchanged ==
  UNCHANGED <<prog, srctext, constants, bytecodes, locals, emitted, globals, stack,
              func_index, pc, output>>

\* Lexer::next returns Ok(token): self.source = input
LexTokenOn(t) ==
  /\ phase = "lex" /\ t.res = "Ok" /\ t.out.tok # "Eof"
  /\ source' = t.rest
  /\ tokens' = Append(tokens, t.out)
  /\ UNCHANGED <<phase, result>>
  /\ LexUnchanged

LexToken == LexTokenOn(LexerNext(source))

\* Lexer::next returns Ok(Token::Eof): the caller stops
LexEofOn(t) ==
  /\ phase = "lex" /\ t.res = "Ok" /\ t.out.tok = "Eof"
  /\ source' = t.rest
  /\ tokens' = Append(tokens, t.out)
  /\ phase' = "done"
  /\ result' = RetSuccess
  /\ LexUnchanged

LexEof == LexEofOn(LexerNext(source))

\* Lexer::next returns Err: self.source stays
LexFailOn(t) ==
  /\ phase = "lex" /\ t.res # "Ok"
  /\ phase' = "failed"
  /\ result' = RetFailure(LexErr)
  /\ UNCHANGED <<source, tokens>>
  /\ LexUnchanged

LexFail == LexFailOn(LexerNext(source))

NextLex == LexToken \/ LexEof \/ LexFail

SpecLex == InitLex /\ [][NextLex]_vars

\* the multi-character operators are the first pieces
MultiOperators == {i \in 1..Len(Pieces) : Pieces[i].kind = "op" /\ Len(Pieces[i].text) > 1}

OperatorsAt(input) == {i \in MultiOperators : StartsWith(input, Pieces[i].text)}

\* the longest multi-character operator the input begins with
LongestAt(input) ==
  Pieces[CHOOSE i \in OperatorsAt(input) :
           \A j \in OperatorsAt(input) : Len(Pieces[j].text) <= Len(Pieces[i].text)]

NoTokenYet == tokens = <<>> /\ phase = "failed"

FirstTokenIs(piece) ==
  /\ ~NoTokenYet
  /\ Len(tokens) = 1 => tokens[1] = piece.tok /\ source = Drop(srctext, Len(piece.text))

\* C9: when the input begins with one of the multi-character operators, the first
\* call of next() returns the token of the longest operator that matches and
\* consumes all of its characters; the input ... yields Dots.
C9_GreedyOperators == OperatorsAt(srctext) # {} => FirstTokenIs(LongestAt(srctext))

\* a numeric literal, then a terminator or the end of the input
NumericFirst ==
  /\ Pieces[prog[1]].kind \in {"num", "big"}
  /\ Len(prog) = 1 \/ Pieces[prog[2]].kind = "end"

FirstTokenIsNumber(piece) ==
  /\ ~NoTokenYet
  /\ Len(tokens) = 1
       => /\ tokens[1].tok \in {"Integer", "Float"}
          /\ piece.kind = "num" => tokens[1] = piece.tok
          /\ source = Drop(srctext, Len(piece.text))

\* C10: a numeric literal followed by a terminator yields exactly one Integer or
\* Float token of the literal's value and consumes exactly the literal's characters,
\* a leading minus sign included; a digit sequence beyond the i64 range yields no
\* token of another kind.
C10_NumericLiterals == NumericFirst => FirstTokenIsNumber(Pieces[prog[1]])

----------------------------------------------------------------------------
(* Comments, strings, the constant pool, registers *)

\* the source text of the statements after the k-th
SourceAfter(k) == SourceOf(SubSeq(prog, k + 1, Len(prog)))

\* iteration k of parse was given a comment line: the lexer consumed it through its
\* newline, and the compiler went on with nothing emitted
CommentSkipped(k) ==
  /\ emitted[k] = <<>>
  /\ Len(emitted) = k => ~CompileError /\ source = SourceAfter(k)

\* C11: input that begins with -- is lexed as Comment through the next newline,
\* whatever the comment text, the empty one included, and the compiler skips a
\* Comment at statement position with no instruction and no constant emitted.
C11_CommentsAreSkipped ==
  \A k \in 1..Len(emitted) :
    prog[k].st = "comment" /\ (\A j \in 1..(k - 1) : prog[j].st # "raw")
      => CommentSkipped(k)

\* C12: a double-quoted literal that uses only the recognized escapes is decoded to
\* the bytes of its runs of ordinary characters and one byte per escape, in order;
\* a hexadecimal escape consumes the x and its one or two hex digits only, so what
\* follows a one-digit escape, the closing quote included, is read as usual.
C12_StringDecoding == Pieces[prog[1]].kind = "str" => FirstTokenIs(Pieces[prog[1]])

\* the pool grows at its end only: an entry keeps its index
PoolAppendOnly ==
  /\ Len(constants) <= Len(constants')
  /\ SubSeq(constants', 1, Len(constants)) = constants

InPool(v) == \E i \in 1..Len(constants) : constants[i] = v

\* the values statement s puts in the pool, each under its own variant: the name of a
\* global it writes, reads or calls, and its literal when that is lowered through the pool
PoolHolds(s, d) ==
  /\ s.st \in {"assign", "call", "callstr"} /\ ~IsDeclared(d, s.name) => InPool(Identifier(s.name))
  /\ s.exp.e = "name" /\ ~IsDeclared(d, s.exp.text) => InPool(Identifier(s.exp.text))
  /\ IsLiteral(s) /\ IsPooled(s, d) => InPool(s.exp.val)

Compiled(k) ==
  Len(emitted[k]) = IF prog[k].st \in {"call", "callstr"} THEN 3
                    ELSE IF prog[k].st \in {"local", "assign"} THEN 1 ELSE 0

PoolKeepsVariants ==
  \A k \in 1..Len(emitted) :
    prog[k].st \in {"local", "assign", "call", "callstr"} /\ Compiled(k)
      => PoolHolds(prog[k], DeclaredIn(prog, k - 1))

\* C13: the constant pool never holds two equal entries, an entry never changes its
\* index, and values of different variants are never merged: Identifier("x") and
\* String("x"), Integer and Float of one magnitude, have entries of their own.
C13_PoolInvariant ==
  /\ [][PoolAppendOnly]_vars
  /\ [](NoEqualEntries /\ PoolKeepsVariants)

\* g = "g"; g = 1; g = 1.0; g = "g" is compiled: four entries in first-seen order
C13_Witness ==
  /\ prog = VariantsProgram /\ phase = "exec"
  /\ constants = <<Identifier(Ng), String(LossyStr(<<103>>)), Integer(I64Of(1)),
                   Float([mant |-> <<1>>, exp |-> 0])>>
  /\ bytecodes = <<SetGlobalConst(0, 1), SetGlobalConst(0, 2), SetGlobalConst(0, 3),
                   SetGlobalConst(0, 1)>>

\* the instruction about to be executed touches only registers that exist: it
\* writes at most one past the top of the stack and reads below the top
AccessInBounds ==
  phase = "exec" /\ pc <= Len(bytecodes) =>
    /\ code.op \in {"GetGlobal", "Move", "LoadNil", "LoadBool", "LoadInt", "LoadConst"}
         => code.a <= Len(stack)
    /\ code.op \in {"Move", "SetGlobalLocal"} => code.b < Len(stack)
    /\ code.op = "Call" => code.a < Len(stack)
    /\ code.op = "Call" /\ code.a < Len(stack) /\ stack[code.a + 1] = Function(lib_print)
         => code.a + 1 < Len(stack)

\* a step keeps every register and adds at most one at the top
StackGrowsByOne ==
  /\ Len(stack) <= Len(stack') /\ Len(stack') <= Len(stack) + 1
  /\ Len(stack') = Len(stack) + 1 => phase = "exec" /\ code.a = Len(stack)

\* C14: while a chunk the compiler produced runs, every register write is at an
\* index at most the stack length, every register read (the source of Move and of
\* SetGlobalLocal, the callee of Call, the argument print reads at base + 1) is
\* below the stack length, and the stack never gets shorter and
\* grows by one only when the destination is the next unused register.
C14_RegisterAccessInBounds ==
  /\ []AccessInBounds
  /\ [][StackGrowsByOne]_vars

\* the register operands of the code c of statement s that stand for a local are the
\* positions in the locals table d: the table's length for the local being declared,
\* the newest entry of the name for a reference
RegisterIsPosition(s, c, d) ==
  /\ s.st = "local" /\ Len(c) = 1 => c[1].a = Len(d)
  /\ s.st = "local" /\ Len(c) = 1 /\ s.exp.e = "name" /\ IsDeclared(d, s.exp.text)
       => c[1].op = "Move" /\ c[1].b = NewestOf(d, s.exp.text)
  /\ s.st = "assign" /\ Len(c) = 1 /\ IsDeclared(d, s.name)
       => c[1].a = NewestOf(d, s.name)
  /\ s.st = "assign" /\ Len(c) = 1 /\ s.exp.e = "name" /\ IsDeclared(d, s.exp.text)
       => c[1].op \in {"Move", "SetGlobalLocal"} /\ c[1].b = NewestOf(d, s.exp.text)
  /\ s.st \in {"call", "callstr"} /\ Len(c) = 3 /\ IsDeclared(d, s.name)
       => c[1].op = "Move" /\ c[1].b = NewestOf(d, s.name)
  /\ s.st = "call" /\ Len(c) = 3 /\ s.exp.e = "name" /\ IsDeclared(d, s.exp.text)
       => c[2].op = "Move" /\ c[2].b = NewestOf(d, s.exp.text)

\* the locals table changes only by the name of the local statement being compiled
\* going to its end
LocalsAppendOnly ==
  locals' # locals =>
    /\ Len(emitted) < Len(prog) /\ prog[Len(emitted) + 1].st = "local"
    /\ locals' = Append(locals, prog[Len(emitted) + 1].name)

\* C15: the destination register of the instruction that initialises the k-th
\* declared local, and every register operand of a later instruction that refers to
\* it, is k, its position in the locals table when it was declared, for a chunk
\* with any number of local declarations; the locals table only grows, by one name
\* for each local statement.
C15_RegisterIsLocalsPosition ==
  /\ [](\A k \in 1..Len(emitted) :
          RegisterIsPosition(prog[k], emitted[k], DeclaredIn(prog, k - 1)))
  /\ [][LocalsAppendOnly]_vars

SetGlobalOps == {"SetGlobalConst", "SetGlobalLocal", "SetGlobalGlobal"}

\* the one instruction of an assignment s to a name that is no local of d: its kind
\* follows the right-hand side
GlobalAssignCode(s, c, d) ==
  /\ Len(c) = 1
  /\ c[1].op = IF s.exp.e # "name" THEN "SetGlobalConst"
               ELSE IF IsDeclared(d, s.exp.text) THEN "SetGlobalLocal"
               ELSE "SetGlobalGlobal"

GlobalAssignsCompiled ==
  \A k \in 1..Len(emitted) :
    prog[k].st = "assign" /\ ~IsDeclared(DeclaredIn(prog, k - 1), prog[k].name)
      => GlobalAssignCode(prog[k], emitted[k], DeclaredIn(prog, k - 1))

\* the step of a SetGlobal instruction of statement s: the entry of s.name becomes v,
\* nothing else changes
GlobalAssignEffect(s, v) ==
  /\ phase' = "exec" /\ pc' = pc + 1
  /\ stack' = stack
  /\ DOMAIN globals' = DOMAIN globals \cup {s.name}
  /\ globals'[s.name] = v
  /\ \A x \in DOMAIN globals \ {s.name} : globals'[x] = globals[x]
  /\ output' = output

GlobalAssignStep ==
  phase = "exec" /\ pc <= Len(bytecodes) /\ code.op \in SetGlobalOps
    => GlobalAssignEffect(prog[RunningStmt],
                          ValueIn(Denote(prog, RunningStmt - 1), prog[RunningStmt].exp))

\* C16: an assignment whose target is no known local compiles to exactly one
\* instruction, SetGlobalConst, SetGlobalLocal or SetGlobalGlobal after its
\* right-hand side, and executing it sets the target's entry of the global table
\* to the value of the right-hand side, replacing an earlier one, and leaves the
\* stack and every other global as they were.
C16_GlobalAssignIsOneInstruction ==
  /\ []GlobalAssignsCompiled
  /\ [][GlobalAssignStep]_vars

\* test_assignment has run: g = 123, g = a and g = g2 were one instruction each, the
\* last write to g is the one that is left, and the stack is the local and the two
\* registers of the last call
C16_Witness ==
  /\ prog = TestAssignment /\ phase = "done"
  /\ emitted[8][1].op = "SetGlobalConst"
  /\ emitted[10][1].op = "SetGlobalLocal"
  /\ emitted[12][1].op = "SetGlobalGlobal"
  /\ Len(bytecodes) = 1 + 6 + 6 * 3
  /\ globals = GlobalInsert(NewGlobals, Ng, Nil)
  /\ Len(stack) = 3

IsCall(s) == s.st \in {"call", "callstr"}

\* the code c of a call statement s compiled with the locals d: callee to register
\* n = Len(d), argument to n + 1, Call(n, 1)
CallLowered(s, c, d) ==
  /\ Len(c) = 3
  /\ c[1].op = (IF IsDeclared(d, s.name) THEN "Move" ELSE "GetGlobal") /\ c[1].a = Len(d)
  /\ c[2].op \in {"Move", "GetGlobal", "LoadNil", "LoadBool", "LoadInt", "LoadConst"}
  /\ s.st = "callstr" => c[2].op = "LoadConst"
  /\ c[2].a = Len(d) + 1
  /\ c[3] = Call(Len(d), 1)

CallsLowered ==
  \A k \in 1..Len(emitted) :
    IsCall(prog[k]) /\ (Len(emitted) = k => ~CompileError)
      => CallLowered(prog[k], emitted[k], DeclaredIn(prog, k - 1))

\* the iteration of parse that compiles a call leaves the locals table as it was
CallCompileStep ==
  Len(emitted') = Len(emitted) + 1 /\ IsCall(prog[Len(emitted')]) => locals' = locals

\* a step of the code of a call statement keeps every register below n; the Call
\* itself writes no register at all
CallRunStep ==
  phase = "exec" /\ pc <= Len(bytecodes) /\ IsCall(prog[RunningStmt]) =>
    /\ \A i \in 1..Len(DeclaredIn(prog, RunningStmt - 1)) : stack'[i] = stack[i]
    /\ code.op = "Call" => stack' = stack

\* C17: a call statement, name(expr) or name "string", compiles to exactly three
\* instructions: the callee loaded into register n, the argument into n + 1,
\* Call(n, 1), n being the number of locals declared so far; compiling it leaves
\* the locals table unchanged; executing it changes no register below n and the
\* Call writes no register.
C17_CallLowering ==
  /\ []CallsLowered
  /\ [][CallCompileStep /\ CallRunStep]_vars

\* local a = 1; local a = 2; print(a) has run: the call used registers 2 and 3 and
\* the two locals are as they were
C17_Witness ==
  /\ prog = ShadowProgram /\ phase = "done"
  /\ emitted[3] = <<GetGlobal(2, 0), Move(3, 1), Call(2, 1)>>
  /\ locals = <<Na, Na>>
  /\ stack = <<Integer(I64Of(1)), Integer(I64Of(2)), Function(lib_print), Integer(I64Of(2))>>

IsIdentifier(v) == v.tag = "Identifier"

NoIdentifierAtRuntime ==
  /\ \A i \in 1..Len(stack) : ~IsIdentifier(stack[i])
  /\ \A x \in DOMAIN globals : ~IsIdentifier(globals[x])

\* operand i of an instruction indexes an entry of the pool that is a name
NameOperand(i) == i < Len(constants) /\ IsIdentifier(constants[i + 1])
\* operand i of an instruction indexes an entry of the pool that is a value
ConstantOperand(i) == i < Len(constants) /\ ~IsIdentifier(constants[i + 1])

OperandKinds ==
  \A j \in 1..Len(bytecodes) :
    /\ bytecodes[j].op = "GetGlobal" => NameOperand(bytecodes[j].b)
    /\ bytecodes[j].op \in SetGlobalOps => NameOperand(bytecodes[j].a)
    /\ bytecodes[j].op = "SetGlobalGlobal" => NameOperand(bytecodes[j].b)
    /\ bytecodes[j].op \in {"LoadConst", "SetGlobalConst"} => ConstantOperand(bytecodes[j].b)

\* C18: no register and no value of the global table is ever an Identifier; the
\* Identifier entries of the pool are the name operands of GetGlobal and of the
\* three SetGlobal instructions and are never the constant operand of LoadConst or
\* of SetGlobalConst.
C18_NoIdentifierAtRuntime == NoIdentifierAtRuntime /\ OperandKinds

\* print "print"; g = print; local a = "g" has run: print and g are in the pool as a
\* name and as a string, the register and the global hold the string and the function
C18_Witness ==
  /\ prog = NameStringProgram /\ phase = "done"
  /\ constants = <<Identifier(Nprint), String(LossyStr(AsBytes(Nprint))),
                   Identifier(Ng), String(LossyStr(AsBytes(Ng)))>>
  /\ bytecodes = <<GetGlobal(0, 0), LoadConst(1, 1), Call(0, 1), SetGlobalGlobal(2, 0),
                   LoadConst(0, 3)>>
  /\ stack = <<String(LossyStr(AsBytes(Ng))), String(LossyStr(AsBytes(Nprint)))>>
  /\ globals[Ng] = Function(lib_print)

\* prog is written in the accepted grammar: local declarations, assignments, calls
InGrammar == \A k \in 1..Len(prog) : prog[k].st \in {"local", "assign", "call", "callstr"}

\* what the whole program denotes
Reference == Denote(prog, Len(prog))

\* the run is over, with Ok or with the error of a call
RunEnded == phase = "done" \/ RuntimeError

AgreesWithReference ==
  /\ output = Reference.out
  /\ globals = Reference.globals
  /\ Reference.failed <=> RuntimeError

\* C19: a program of the accepted grammar compiles and runs without a panic, and
\* when its run is over the values it has printed, in order, and the global table
\* are those of the reference interpreter, which keeps the locals as a list of bindings resolved newest first
\* and reads a missing global as Nil; at every statement boundary each declared
\* local's register holds the local's value, whatever calls have used the
\* registers above.
C19_AgreesWithInterpreter ==
  /\ InGrammar => ~CompileError /\ phase # "panic"
  /\ RunEnded => AgreesWithReference
  /\ \A k \in Finished : EffectsKept(Denote(prog, k))

\* test_assignment has run: 123 123 nil 123 nil nil printed, g is Nil, and a, assigned
\* three times and read by six calls, is in register 0
C19_Witness ==
  /\ prog = TestAssignment /\ phase = "done"
  /\ output = <<Integer(I64Of(123)), Integer(I64Of(123)), Nil, Integer(I64Of(123)), Nil, Nil>>
  /\ output = Reference.out
  /\ globals = Reference.globals /\ globals[Ng] = Nil
  /\ stack[1] = Nil /\ Reference.binds = <<[name |-> Na, val |-> Nil]>>

\* -32768 <= i <= 32767
FitsI16(i) ==
  /\ Len(i.mag) <= 5
  /\ DigitsToNat(i.mag) <= IF i.neg THEN I16MinMag ELSE I16Max

\* s, compiled with the locals d, loads an integer literal into a register
LoadsInteger(s, d) ==
  /\ s.exp.e = "int"
  /\ s.st = "local" \/ s.st = "call" \/ (s.st = "assign" /\ IsDeclared(d, s.name))

\* the index in the code of s of the instruction that loads its expression
ExpIndex(s) == IF s.st = "call" THEN 2 ELSE 1

\* the instruction ins for the literal i: LoadInt of i itself when i fits i16,
\* LoadConst of an entry that is Integer(i) otherwise
IntegerInstruction(ins, i) ==
  IF FitsI16(i)
  THEN ins.op = "LoadInt" /\ I64Of(ins.b) = i
  ELSE ins.op = "LoadConst" /\ ins.b < Len(constants) /\ constants[ins.b + 1] = Integer(i)

IntegersLowered ==
  \A k \in 1..Len(emitted) :
    LoadsInteger(prog[k], DeclaredIn(prog, k - 1)) /\ Len(emitted[k]) >= ExpIndex(prog[k])
      => IntegerInstruction(emitted[k][ExpIndex(prog[k])], prog[k].exp.val.v)

\* the iteration of parse that compiles a small integer literal adds no Integer to
\* the pool
SmallIntegerCompileStep ==
  /\ Len(emitted') = Len(emitted) + 1
  /\ LoadsInteger(prog[Len(emitted')], DeclaredIn(prog, Len(emitted)))
  /\ FitsI16(prog[Len(emitted')].exp.val.v)
  => \A j \in (Len(constants) + 1)..Len(constants') : constants'[j].tag # "Integer"

\* the step of the instruction that loads the literal of the running statement
\* leaves Integer(i) in the destination register
IntegerLoadStep ==
  /\ phase = "exec" /\ pc <= Len(bytecodes)
  /\ LoadsInteger(prog[RunningStmt], DeclaredIn(prog, RunningStmt - 1))
  /\ pc = CodeEnd(RunningStmt - 1) + ExpIndex(prog[RunningStmt])
  => /\ phase' = "exec"
     /\ code.a < Len(stack')
     /\ stack'[code.a + 1] = prog[RunningStmt].exp.val

\* C20: an i64 literal i that is the expression of a local declaration, of an
\* assignment to a local or the argument of a call is loaded by LoadInt, with no
\* entry added to the pool, exactly when -32768 <= i <= 32767, and by LoadConst of
\* the pooled Integer(i) otherwise; after the instruction its destination register
\* holds Integer(i).
C20_IntegerLiterals ==
  /\ []IntegersLowered
  /\ [][SmallIntegerCompileStep /\ IntegerLoadStep]_vars

\* local a = 32767; a = 32768; print(-32768); print(-32769) has run
C20_Witness ==
  /\ prog = IntegerBoundsProgram /\ phase = "done"
  /\ bytecodes = <<LoadInt(0, 32767), LoadConst(0, 0),
                   GetGlobal(1, 1), LoadInt(2, -32768), Call(1, 1),
                   GetGlobal(1, 1), LoadConst(2, 2), Call(1, 1)>>
  /\ constants = <<Integer(I64(FALSE, <<3, 2, 7, 6, 8>>)), Identifier(Nprint),
                   Integer(I64(TRUE, <<3, 2, 7, 6, 9>>))>>
  /\ stack[1] = Integer(I64(FALSE, <<3, 2, 7, 6, 8>>))
  /\ output = <<Integer(I64(TRUE, <<3, 2, 7, 6, 8>>)), Integer(I64(TRUE, <<3, 2, 7, 6, 9>>))>>

\* entry i of the pool, counted from 0, is v
EntryIs(i, v) == i < Len(constants) /\ constants[i + 1] = v

\* the name operands and the constant operand of the instruction ins index the
\* entries of the global names target and read and of the literal exp
OperandsAre(ins, target, exp) ==
  /\ ins.op \in SetGlobalOps => EntryIs(ins.a, Identifier(target))
  /\ ins.op \in {"GetGlobal", "SetGlobalGlobal"} => EntryIs(ins.b, Identifier(exp.text))
  /\ ins.op \in {"LoadConst", "SetGlobalConst"} => EntryIs(ins.b, exp.val)

\* the operands of the code c of statement s: of the one instruction of a
\* declaration or an assignment, of the callee's load and the argument's load of a call
OperandsInserted(s, c) ==
  /\ s.st \in {"local", "assign"} /\ Len(c) = 1 => OperandsAre(c[1], s.name, s.exp)
  /\ IsCall(s) /\ Len(c) = 3
       => OperandsAre(c[1], s.name, EName(s.name)) /\ OperandsAre(c[2], s.name, s.exp)

\* as_str().unwrap() of the instruction about to be executed finds a name
UnwrapFinds ==
  phase = "exec" /\ pc <= Len(bytecodes) =>
    /\ code.op \in SetGlobalOps => NameOperand(code.a)
    /\ code.op \in {"GetGlobal", "SetGlobalGlobal"} => NameOperand(code.b)

\* C21: in a chunk with any number of distinct constants the name operand of every
\* GetGlobal, SetGlobalConst, SetGlobalLocal and SetGlobalGlobal (both operands of
\* the last) indexes the entry that is the Identifier of the name meant, and the
\* constant operand of every LoadConst and SetGlobalConst indexes the entry equal
\* to the literal compiled; the unwrap of a name entry in the machine never fails.
C21_OperandsIndexInsertedEntry ==
  /\ \A k \in 1..Len(emitted) : OperandsInserted(prog[k], emitted[k])
  /\ UnwrapFinds

====
